---- MODULE Spec2Model ----
\* A model of the resource-lifecycle scripts of sagemaker-ml-pipeline:
\*   mon  src/monitor_endpoint.py                 monitor_endpoint_deployment
\*   dep  src/scripts/deploy_model.py             deploy_model  (variant "script")
\*        src/scripts/deploy_model_github.py      deploy_model  (variant "github")
\*   cln  src/scripts/cleanup_failed_resources.py cleanup_failed_resources
\*   inf  src/deploy.py                           main, run_glue_workflow
\*   par  src/scripts/cleanup_failed_resources.py several runs at the same time
\*   tst  src/test_endpoint.py, src/scripts/test_endpoint_predictions.py,
\*        src/test_endpoint_predictions_github.py the sample loops
\*   trn  src/scripts/start_training_job_github.py start_training_job
\*   pipe src/scripts/run_full_pipeline.py        run_full_ml_pipeline
\*   nam  the names successive deployment and training runs give resources
\* Each program has one record-valued variable whose fields carry the names of
\* the program's locals; a program that is not running is "idle".
EXTENDS Integers, Sequences, FiniteSets, TLC

VARIABLES mon, dep, cln, inf, par, tst, trn, pipe, nam

vars == <<mon, dep, cln, inf, par, tst, trn, pipe, nam>>

\* ------------------------------------------------------------------ bounds
\* largest max_wait_minutes a caller passes to the monitor
MaxWaitMinutes == 2
\* seconds a slow describe_endpoint call takes (a fast one takes 0)
MaxLatency == 20
\* lengths of the candidate lists of a cleanup sweep
MaxEndpoints == 2
MaxConfigs == 1
MaxModels == 1
\* polls of one loop of src/deploy.py that are counted
MaxPolls == 4
\* largest num_samples a caller passes to test_batch_predictions
MaxSamples == 3
\* describe_training_job calls over which a training job's status can change
MaxStatusChanges == 3
\* largest KeyCount list_objects_v2 reports for the training prefix
MaxKeys == 2
\* training jobs in the control plane when the pipeline runs
MaxJobs == 4
\* the instants at which runs start: second 0..MaxSeconds of hour 0..MaxHours
MaxHours == 1
MaxSeconds == 1
\* deployment and training runs in a row
MaxRuns == 2

\* ------------------------------------------------- the control plane's words
\* EndpointStatus values describe_endpoint can answer with
EndpointStatuses ==
  {"Creating", "Updating", "Deleting", "OutOfService", "InService", "Failed"}

\* ==========================================================================
\* monitor_endpoint_deployment (src/monitor_endpoint.py)
\* ==========================================================================

\* time.sleep(30) at the end of every iteration
Interval == 30

\* the durations a describe_endpoint call can take
Latencies == {0, MaxLatency}

\* values of time.time() when the monitor starts
StartTimes == {0, 100}

\* (faulty variant of Branch, for comparison: the elif for 'Failed' is missing)
Branch_NoFailed(status, elapsed_time, max_wait_seconds) ==
  IF status = "InService" THEN "InService"
  ELSE IF elapsed_time > max_wait_seconds THEN "timeout"
  ELSE "sleep"

\* (faulty variant of Branch, for comparison: a status that is neither Creating nor
\* InService counts as a failure)
Branch_OnlyCreatingWaits(status, elapsed_time, max_wait_seconds) ==
  IF status = "InService" THEN "InService"
  ELSE IF status # "Creating" THEN "Failed"
  ELSE IF elapsed_time > max_wait_seconds THEN "timeout"
  ELSE "sleep"

\* (faulty variant of Branch, for comparison: the elapsed time is tested before
\* the status)
Branch_TimeoutFirst(status, elapsed_time, max_wait_seconds) ==
  IF elapsed_time > max_wait_seconds THEN "timeout"
  ELSE IF status = "InService" THEN "InService"
  ELSE IF status = "Failed" THEN "Failed"
  ELSE "sleep"

\* (faulty variant of Branch, for comparison: the timeout is taken one interval
\* late)
Branch_LateTimeout(status, elapsed_time, max_wait_seconds) ==
  IF status = "InService" THEN "InService"
  ELSE IF status = "Failed" THEN "Failed"
  ELSE IF elapsed_time > max_wait_seconds + 30 THEN "timeout"
  ELSE "sleep"

\* the if/elif chain on status and elapsed time: the branch one iteration takes
Branch(status, elapsed_time, max_wait_seconds) ==
  IF status = "InService" THEN "InService"
  ELSE IF status = "Failed" THEN "Failed"
  ELSE IF elapsed_time > max_wait_seconds THEN "timeout"
  ELSE "sleep"

\* the value each return statement of the monitor hands to its caller
MonitorReturn(branch) ==
  IF branch = "InService" THEN "True" ELSE "False"

MonIdle ==
  [pc |-> "idle", max_wait_seconds |-> 0, start_time |-> 0, clock |-> 0,
   status |-> "none", elapsed_time |-> 0, branch |-> "none", result |-> "none",
   invoke |-> "none", fetches |-> 0, sleeps |-> 0, termSeen |-> FALSE,
   termInTime |-> FALSE, error |-> "none", errors |-> 0, last_sleep |-> 0]

\* the state after lines 10-18: clients built, start_time and ceiling taken
MonStart(max_wait_minutes, t0) ==
  [MonIdle EXCEPT !.pc = "poll", !.max_wait_seconds = max_wait_minutes * 60,
                  !.start_time = t0, !.clock = t0]

\* one iteration whose describe_endpoint answers with status s after d seconds;
\* inv is the outcome of the test invocation the InService branch makes
MonFetchStatus(s, d, inv) ==
  /\ mon.pc = "poll"
  /\ LET now == mon.clock + d
         elapsed == now - mon.start_time
         b == Branch(s, elapsed, mon.max_wait_seconds)
     IN mon' = [mon EXCEPT
          !.clock = now,
          !.status = s,
          !.elapsed_time = elapsed,
          !.fetches = @ + 1,
          !.termSeen = @ \/ s \in {"InService", "Failed"},
          !.termInTime = @ \/ (s \in {"InService", "Failed"}
                               /\ elapsed <= mon.max_wait_seconds),
          !.invoke = IF b = "InService" THEN inv ELSE @,
          !.branch = IF b = "sleep" THEN @ ELSE b,
          !.result = IF b = "sleep" THEN @ ELSE MonitorReturn(b),
          !.pc = IF b = "sleep" THEN "sleep" ELSE "done"]
  /\ UNCHANGED <<dep, cln, inf, par, tst, trn, pipe, nam>>

\* the errors describe_endpoint can raise: the endpoint is not found (yet), or
\* anything else (access denied, throttling, no connection)
FetchErrors == {"not_found", "other"}

\* (faulty variant of ErrorBranch, for comparison: an error is taken for "not ready
\* yet" and the loop goes on)
ErrorBranch_Swallow(e) == "sleep"

\* the except clause of lines 71-73 catches every Exception, whatever it is,
\* prints it and returns
ErrorBranch(e) == "error"

\* (faulty variant of SleepSeconds, for comparison: the wait grows with each
\* iteration)
SleepSeconds_Backoff(sleeps) == Interval * (sleeps + 1)

\* the argument of the time.sleep call that ends an iteration, after sleeps
\* earlier ones
SleepSeconds(sleeps) == Interval

\* one iteration whose describe_endpoint raises the error e after d seconds
MonFetchError(d, e) ==
  /\ mon.pc = "poll"
  /\ LET b == ErrorBranch(e)
     IN mon' = [mon EXCEPT
          !.clock = @ + d, !.fetches = @ + 1,
          !.error = e, !.errors = @ + 1,
          !.branch = IF b = "sleep" THEN @ ELSE b,
          !.result = IF b = "sleep" THEN @ ELSE MonitorReturn(b),
          !.pc = IF b = "sleep" THEN "sleep" ELSE "done"]
  /\ UNCHANGED <<dep, cln, inf, par, tst, trn, pipe, nam>>

\* time.sleep(30), then the next iteration
MonSleep ==
  /\ mon.pc = "sleep"
  /\ mon' = [mon EXCEPT !.clock = @ + SleepSeconds(mon.sleeps),
                        !.last_sleep = SleepSeconds(mon.sleeps),
                        !.sleeps = @ + 1, !.pc = "poll"]
  /\ UNCHANGED <<dep, cln, inf, par, tst, trn, pipe, nam>>

MonNext ==
  \/ \E s \in EndpointStatuses, d \in Latencies, inv \in {"ok", "failed"} :
       MonFetchStatus(s, d, inv)
  \/ \E d \in Latencies, e \in FetchErrors : MonFetchError(d, e)
  \/ MonSleep

\* ==========================================================================
\* deploy_model (src/scripts/deploy_model.py, src/scripts/deploy_model_github.py)
\* ==========================================================================

\* WaiterConfig of the endpoint_in_service waiter
Delay == 30
MaxAttempts == 20

\* what a describe_endpoint call answers: a status, or an error
DescribeAnswers == EndpointStatuses \cup {"error"}

\* the two scripts that define deploy_model
Variants == {"script", "github"}

\* (faulty variant of HandleException, for comparison: both scripts re-raise)
HandleException_Reraise(variant) == "raised"

\* the except clause around the whole body: deploy_model.py re-raises,
\* deploy_model_github.py prints and returns None
HandleException(variant) ==
  IF variant = "github" THEN "None" ELSE "raised"

\* (faulty variant of FailureCalls, for comparison: the failure paths roll back
\* what the run created)
FailureCalls_Rollback(variant, path) ==
  <<[op |-> "delete_endpoint", ok |-> TRUE,
     name |-> "endpoint_name", refers |-> "none"],
    [op |-> "delete_endpoint_config", ok |-> TRUE,
     name |-> "endpoint_config_name", refers |-> "none"],
    [op |-> "delete_model", ok |-> TRUE,
     name |-> "model_name", refers |-> "none"]>>

\* the control-plane calls made on the way out when the deployment fails, by
\* the except clause (path "except") and by the branch for a final status
\* other than InService (path "status"): they print, and return or re-raise
FailureCalls(variant, path) == <<>>

\* (faulty variant of CallArgs, for comparison: the endpoint configuration
\* names the model of an earlier run, a literal)
CallArgs_StaleModel(op) ==
  IF op = "create_model" THEN [name |-> "model_name", refers |-> "none"]
  ELSE IF op = "create_endpoint_config"
  THEN [name |-> "endpoint_config_name", refers |-> "literal"]
  ELSE IF op = "create_endpoint"
  THEN [name |-> "endpoint_name", refers |-> "endpoint_config_name"]
  ELSE [name |-> "endpoint_name", refers |-> "none"]

\* the local variable each call of deploy_model passes as the name of its
\* resource (ModelName, EndpointConfigName, EndpointName) and the one it passes
\* as the name of the resource it builds on (ProductionVariants[0].ModelName of
\* create_endpoint_config, EndpointConfigName of create_endpoint)
CallArgs(op) ==
  IF op = "create_model" THEN [name |-> "model_name", refers |-> "none"]
  ELSE IF op = "create_endpoint_config"
  THEN [name |-> "endpoint_config_name", refers |-> "model_name"]
  ELSE IF op = "create_endpoint"
  THEN [name |-> "endpoint_name", refers |-> "endpoint_config_name"]
  ELSE [name |-> "endpoint_name", refers |-> "none"]

\* (faulty variant of NextStep, for comparison: a raise is swallowed and the next call is made)
NextStep_Swallow(ok, nextpc) == nextpc

\* (faulty variant of NextStep, for comparison: a call that raises sends the
\* run back to the first creation call)
NextStep_Restart(ok, nextpc) ==
  IF ok THEN nextpc ELSE "create_model"

\* sequencing inside the try block: the statement after a call runs only when
\* the call returned; a raise leaves the block
NextStep(ok, nextpc) ==
  IF ok THEN nextpc ELSE "done"

\* the acceptors of the endpoint_in_service waiter applied to one answer
WaiterState(r) ==
  IF r = "InService" THEN "success"
  ELSE IF r = "Failed" THEN "failure"
  ELSE IF r = "error" THEN "error"
  ELSE "retry"

\* one attempt of waiter.wait: the acceptor's state, or the attempt ceiling
WaiterOutcome(r, num_attempts) ==
  IF WaiterState(r) # "retry" THEN WaiterState(r)
  ELSE IF num_attempts >= MaxAttempts THEN "max_attempts"
  ELSE "retry"

\* what deploy_model hands back after the describe_endpoint that follows the wait
AfterDescribe(variant, r) ==
  IF r = "error" THEN HandleException(variant)
  ELSE IF variant = "script" THEN "dict"
  ELSE IF r = "InService" THEN "endpoint_name"
  ELSE "None"

\* what the __main__ block makes of deploy_model's result
RunOutcome(variant, result) ==
  IF variant = "script"
  THEN (IF result = "dict" THEN "Succeeded" ELSE "Failed")
  ELSE (IF result = "endpoint_name" THEN "Succeeded" ELSE "Failed")

DepIdle ==
  [pc |-> "idle", variant |-> "none", calls |-> <<>>, attempts |-> 0,
   sleeps |-> 0, wait |-> "none", status |-> "none", termSeen |-> FALSE,
   onlyCreating |-> TRUE, endpoint_status |-> "none", result |-> "none"]

\* the state at the try: names chosen, no call made yet
DepStart(variant) ==
  [DepIdle EXCEPT !.pc = "create_model", !.variant = variant]

\* one creation call of the try block, which returns (ok) or raises
DepCreate(op, nextpc, ok) ==
  /\ dep.pc = op
  /\ dep' = [dep EXCEPT
       !.calls = Append(@, [op |-> op, ok |-> ok, name |-> CallArgs(op).name,
                            refers |-> CallArgs(op).refers])
                 \o (IF NextStep(ok, nextpc) = "done"
                     THEN FailureCalls(dep.variant, "except") ELSE <<>>),
       !.pc = NextStep(ok, nextpc),
       !.result = IF NextStep(ok, nextpc) = "done"
                  THEN HandleException(dep.variant) ELSE @]
  /\ UNCHANGED <<mon, cln, inf, par, tst, trn, pipe, nam>>

DepCreateModel(ok) == DepCreate("create_model", "create_endpoint_config", ok)

DepCreateEndpointConfig(ok) ==
  DepCreate("create_endpoint_config", "create_endpoint", ok)

DepCreateEndpoint(ok) == DepCreate("create_endpoint", "wait", ok)

\* one attempt of waiter.wait (describe_endpoint, acceptors, ceiling, sleep)
DepWaiterAttempt(r) ==
  /\ dep.pc = "wait"
  /\ LET n == dep.attempts + 1
         o == WaiterOutcome(r, n)
     IN dep' = [dep EXCEPT
          !.attempts = n,
          !.status = r,
          !.termSeen = @ \/ r \in {"InService", "Failed"},
          !.onlyCreating = @ /\ r = "Creating",
          !.sleeps = IF o = "retry" THEN @ + 1 ELSE @,
          !.calls = IF o \in {"retry", "success"} THEN @
                    ELSE @ \o FailureCalls(dep.variant, "except"),
          !.wait = IF o = "retry" THEN @ ELSE o,
          !.pc = IF o = "retry" THEN "wait"
                 ELSE IF o = "success" THEN "describe" ELSE "done",
          !.result = IF o \in {"retry", "success"} THEN @
                     ELSE HandleException(dep.variant)]
  /\ UNCHANGED <<mon, cln, inf, par, tst, trn, pipe, nam>>

\* the describe_endpoint after the wait, and the return
DepDescribe(r) ==
  /\ dep.pc = "describe"
  /\ dep' = [dep EXCEPT
       !.calls = Append(@, [op |-> "describe_endpoint", ok |-> r # "error",
                            name |-> CallArgs("describe_endpoint").name,
                            refers |-> CallArgs("describe_endpoint").refers])
                 \o (IF r = "error" THEN FailureCalls(dep.variant, "except")
                     ELSE IF dep.variant = "github" /\ r # "InService"
                          THEN FailureCalls(dep.variant, "status")
                     ELSE <<>>),
       !.endpoint_status = r,
       !.result = AfterDescribe(dep.variant, r),
       !.pc = "done"]
  /\ UNCHANGED <<mon, cln, inf, par, tst, trn, pipe, nam>>

DepNext ==
  \/ \E ok \in BOOLEAN : DepCreateModel(ok)
  \/ \E ok \in BOOLEAN : DepCreateEndpointConfig(ok)
  \/ \E ok \in BOOLEAN : DepCreateEndpoint(ok)
  \/ \E r \in DescribeAnswers : DepWaiterAttempt(r)
  \/ \E r \in DescribeAnswers : DepDescribe(r)

\* ==========================================================================
\* cleanup_failed_resources (src/scripts/cleanup_failed_resources.py)
\* ==========================================================================

\* the candidate lists, named by position
ListOf(n) == [k \in 1..n |-> k]

\* the control-plane operations the sweep calls
CleanupOps ==
  {"describe_endpoint", "delete_endpoint", "delete_endpoint_config", "delete_model"}

\* the control plane answers a call with "ok" (a status, for describe) or with a
\* ClientError whose text either contains 'does not exist' or does not ("other").
\* An operation the caller may not perform is refused whatever the resource.
CpDescribeEndpoint(c, name) ==
  IF "describe_endpoint" \in c.denied THEN "other"
  ELSE IF c.endpoints[name] = "absent" THEN "does not exist"
  ELSE c.endpoints[name]

\* (faulty variant of CpDelete, for comparison: an endpoint config cannot be
\* deleted while an endpoint exists, so deletions are no longer independent)
CpDelete_ConfigInUse(c, op, exists) ==
  IF op \in c.denied THEN "other"
  ELSE IF ~exists THEN "does not exist"
  ELSE IF op = "delete_endpoint_config"
          /\ \E n \in DOMAIN c.endpoints : c.endpoints[n] # "absent"
       THEN "other"
  ELSE "ok"

CpDelete(c, op, exists) ==
  IF op \in c.denied THEN "other"
  ELSE IF ~exists THEN "does not exist"
  ELSE "ok"

\* (faulty variant of EndpointAction, for comparison: only 'OutOfService' is deleted)
EndpointAction_OnlyOutOfService(status) ==
  IF status = "OutOfService" THEN "delete"
  ELSE IF status = "Creating" THEN "still creating"
  ELSE "status"

\* (faulty variant of EndpointAction, for comparison: an endpoint still 'Creating' is deleted too)
EndpointAction_AlsoCreating(status) ==
  IF status \in {"Failed", "OutOfService", "Creating"} THEN "delete"
  ELSE "status"

\* if status in ['Failed', 'OutOfService'] / elif status == 'Creating' / else
EndpointAction(status) ==
  IF status \in {"Failed", "OutOfService"} THEN "delete"
  ELSE IF status = "Creating" THEN "still creating"
  ELSE "status"

\* (faulty variant of HandleClientError, for comparison: 'does not exist' is reported as an error)
HandleClientError_AllErrors(e) == "error"

\* except ClientError as e: the line printed for the error text e
HandleClientError(e) ==
  IF e = "does not exist" THEN "does not exist" ELSE "error"

Phases == <<"endpoints", "configs", "models">>

PhaseList(c, k) ==
  IF k = 1 THEN c.failed_endpoints
  ELSE IF k = 2 THEN c.failed_configs
  ELSE c.failed_models

\* the first candidate of list k or, when a list is empty, of the next list
\* that has one; the end of the sweep when there is none
FirstFrom(c, k) ==
  IF k <= 3 /\ Len(PhaseList(c, k)) > 0 THEN [pc |-> Phases[k], i |-> 1]
  ELSE IF k + 1 <= 3 /\ Len(PhaseList(c, k + 1)) > 0
       THEN [pc |-> Phases[k + 1], i |-> 1]
  ELSE IF k + 2 <= 3 /\ Len(PhaseList(c, k + 2)) > 0
       THEN [pc |-> Phases[k + 2], i |-> 1]
  ELSE [pc |-> "done", i |-> 0]

\* (faulty variant of Advance, for comparison: the sweep returns when a candidate does not exist)
Advance_StopOnNotFound(c, k, line) ==
  IF line = "does not exist" THEN [pc |-> "done", i |-> 0]
  ELSE IF c.i < Len(PhaseList(c, k)) THEN [pc |-> c.pc, i |-> c.i + 1]
  ELSE FirstFrom(c, k + 1)

\* (faulty variant of Advance, for comparison: the sweep returns on the first error it prints)
Advance_StopOnError(c, k, line) ==
  IF line = "error" THEN [pc |-> "done", i |-> 0]
  ELSE IF c.i < Len(PhaseList(c, k)) THEN [pc |-> c.pc, i |-> c.i + 1]
  ELSE FirstFrom(c, k + 1)

\* the loop position after candidate i of list k: the next candidate of the
\* list, or the start of the lists after it
\* (line is what the iteration printed: the loops go on whatever it is)
Advance(c, k, line) ==
  IF c.i < Len(PhaseList(c, k)) THEN [pc |-> c.pc, i |-> c.i + 1]
  ELSE FirstFrom(c, k + 1)

ClnIdle ==
  [pc |-> "idle", i |-> 0, sweep |-> 0,
   failed_endpoints |-> <<>>, failed_configs |-> <<>>, failed_models |-> <<>>,
   endpoints |-> <<>>, configs |-> {}, models |-> {}, denied |-> {},
   calls |-> <<>>, report |-> <<>>, at_start |-> <<>>, after1 |-> <<>>]

\* what exists in the control plane
Snapshot(c) ==
  [endpoints |-> c.endpoints, configs |-> c.configs, models |-> c.models]

\* the first sweep about to start on a control plane that holds the endpoints
\* eps (name -> status or "absent"), the configs cfs and the models mds
ClnStart(eps, cfs, mds, den, nc, nm) ==
  LET c0 == [ClnIdle EXCEPT
               !.sweep = 1,
               !.failed_endpoints = ListOf(Len(eps)),
               !.failed_configs = ListOf(nc),
               !.failed_models = ListOf(nm),
               !.endpoints = eps, !.configs = cfs, !.models = mds,
               !.denied = den]
      p == FirstFrom(c0, 1)
  IN [c0 EXCEPT !.pc = p.pc, !.i = p.i, !.at_start = Snapshot(c0)]

\* one iteration of "for endpoint_name in failed_endpoints"
ClnEndpoint ==
  /\ cln.pc = "endpoints"
  /\ LET name == cln.failed_endpoints[cln.i]
         a == CpDescribeEndpoint(cln, name)
         isErr == a \in {"does not exist", "other"}
         act == IF isErr THEN "none" ELSE EndpointAction(a)
         d == CpDelete(cln, "delete_endpoint", cln.endpoints[name] # "absent")
         line == IF isErr THEN HandleClientError(a)
                 ELSE IF act # "delete" THEN act
                 ELSE IF d = "ok" THEN "deletion initiated"
                 ELSE HandleClientError(d)
         c1 == [op |-> "describe_endpoint", name |-> name, sweep |-> cln.sweep,
                answer |-> a]
         c2 == [op |-> "delete_endpoint", name |-> name, sweep |-> cln.sweep,
                answer |-> d]
         p == Advance(cln, 1, line)
     IN cln' = [cln EXCEPT
          !.calls = IF act = "delete" THEN @ \o <<c1, c2>> ELSE Append(@, c1),
          !.endpoints = IF act = "delete" /\ d = "ok"
                        THEN [@ EXCEPT ![name] = "absent"] ELSE @,
          !.report = Append(@, [kind |-> "endpoint", name |-> name,
                                sweep |-> cln.sweep, line |-> line]),
          !.pc = p.pc, !.i = p.i]
  /\ UNCHANGED <<mon, dep, inf, par, tst, trn, pipe, nam>>

\* one iteration of "for config_name in failed_configs"
ClnConfig ==
  /\ cln.pc = "configs"
  /\ LET name == cln.failed_configs[cln.i]
         d == CpDelete(cln, "delete_endpoint_config", name \in cln.configs)
         line == IF d = "ok" THEN "deleted" ELSE HandleClientError(d)
         p == Advance(cln, 2, line)
     IN cln' = [cln EXCEPT
          !.calls = Append(@, [op |-> "delete_endpoint_config", name |-> name,
                               sweep |-> cln.sweep, answer |-> d]),
          !.configs = IF d = "ok" THEN @ \ {name} ELSE @,
          !.report = Append(@, [kind |-> "config", name |-> name,
                                sweep |-> cln.sweep, line |-> line]),
          !.pc = p.pc, !.i = p.i]
  /\ UNCHANGED <<mon, dep, inf, par, tst, trn, pipe, nam>>

\* one iteration of "for model_name in failed_models"
ClnModel ==
  /\ cln.pc = "models"
  /\ LET name == cln.failed_models[cln.i]
         d == CpDelete(cln, "delete_model", name \in cln.models)
         line == IF d = "ok" THEN "deleted" ELSE HandleClientError(d)
         p == Advance(cln, 3, line)
     IN cln' = [cln EXCEPT
          !.calls = Append(@, [op |-> "delete_model", name |-> name,
                               sweep |-> cln.sweep, answer |-> d]),
          !.models = IF d = "ok" THEN @ \ {name} ELSE @,
          !.report = Append(@, [kind |-> "model", name |-> name,
                                sweep |-> cln.sweep, line |-> line]),
          !.pc = p.pc, !.i = p.i]
  /\ UNCHANGED <<mon, dep, inf, par, tst, trn, pipe, nam>>

\* the script is run a second time over the same candidate lists
ClnSecondSweep ==
  /\ cln.pc = "done"
  /\ cln.sweep = 1
  /\ LET p == FirstFrom(cln, 1)
     IN cln' = [cln EXCEPT !.sweep = 2, !.pc = p.pc, !.i = p.i,
                           !.after1 = Snapshot(cln)]
  /\ UNCHANGED <<mon, dep, inf, par, tst, trn, pipe, nam>>

ClnNext ==
  \/ ClnEndpoint
  \/ ClnConfig
  \/ ClnModel
  \/ ClnSecondSweep

\* ==========================================================================
\* main, run_glue_workflow, check_sagemaker_endpoint (src/deploy.py)
\* ==========================================================================

\* what get_workflow_run answers: the value of the run property 'Status', the
\* property missing, or an error
WorkflowAnswers == {"missing", "RUNNING", "COMPLETED", "FAILED", "STOPPED", "error"}

\* (faulty variant of WorkflowStatus, for comparison: a run without the
\* property counts as completed)
WorkflowStatus_DefaultCompleted(props) ==
  IF props = "missing" THEN "COMPLETED" ELSE props

\* (faulty variant of CheckSagemakerEndpoint, for comparison: every answer
\* with a status counts as ready)
CheckSagemakerEndpoint_AnyStatus(r) == r # "error"

\* response['Run']['WorkflowRunProperties'].get('Status', 'RUNNING')
WorkflowStatus(props) ==
  IF props = "missing" THEN "RUNNING" ELSE props

\* (faulty variant of WorkflowBranch, for comparison: a failed run is polled
\* again like a running one)
WorkflowBranch_FailedSleeps(status) ==
  IF status = "COMPLETED" THEN "break" ELSE "sleep"

\* the branch one iteration of the workflow loop takes on a status
WorkflowBranch(status) ==
  IF status = "COMPLETED" THEN "break"
  ELSE IF status = "FAILED" THEN "exit"
  ELSE "sleep"

\* check_sagemaker_endpoint: True only for an answer with status InService;
\* any other status and any error give False
CheckSagemakerEndpoint(r) == r = "InService"

\* a poll counter that stops counting at MaxPolls
Count(n) == IF n < MaxPolls THEN n + 1 ELSE n

InfIdle ==
  [pc |-> "idle", data_file |-> FALSE, status |-> "none",
   endpoint_status |-> "none", wf_polls |-> 0, ep_polls |-> 0,
   uploaded |-> FALSE, run_id |-> FALSE, invoked |-> "none", exit_code |-> -1,
   wf_sleeps |-> 0, last_sleep |-> 0, error |-> "none", props |-> "none"]

\* main after the infrastructure is deployed, about to upload the data
InfStart(exists) ==
  [InfIdle EXCEPT !.pc = "upload", !.data_file = exists]

\* upload_data_to_s3: upload the file if it exists, else exit 1; an error of
\* upload_file is not caught and ends the process
InfUpload(ok) ==
  /\ inf.pc = "upload"
  /\ inf' = IF inf.data_file /\ ok
            THEN [inf EXCEPT !.uploaded = TRUE, !.pc = "start_workflow"]
            ELSE [inf EXCEPT !.pc = "exit", !.exit_code = 1]
  /\ UNCHANGED <<mon, dep, cln, par, tst, trn, pipe, nam>>

\* run_glue_workflow up to the loop: start_workflow_run returns a run id or raises
InfStartWorkflow(ok) ==
  /\ inf.pc = "start_workflow"
  /\ inf' = IF ok
            THEN [inf EXCEPT !.run_id = TRUE, !.pc = "poll_workflow"]
            ELSE [inf EXCEPT !.pc = "exit", !.exit_code = 1]
  /\ UNCHANGED <<mon, dep, cln, par, tst, trn, pipe, nam>>

\* time.sleep(30) at the end of every iteration of the workflow loop
WorkflowInterval == 30

\* one iteration of the workflow loop up to its sleep: get_workflow_run and the
\* branch; an error goes to the except clause, which exits with 1
InfPollWorkflow(r) ==
  /\ inf.pc = "poll_workflow"
  /\ LET st == WorkflowStatus(r)
         b == IF r = "error" THEN "exit" ELSE WorkflowBranch(st)
     IN inf' = [inf EXCEPT
          !.props = r,
          !.status = IF r = "error" THEN @ ELSE st,
          !.error = IF r = "error" THEN "other" ELSE @,
          !.wf_polls = Count(@),
          !.pc = IF b = "break" THEN "wait_endpoint"
                 ELSE IF b = "exit" THEN "exit" ELSE "sleep_workflow",
          !.exit_code = IF b = "exit" THEN 1 ELSE @]
  /\ UNCHANGED <<mon, dep, cln, par, tst, trn, pipe, nam>>

\* the sleep that ends an iteration of the workflow loop
InfSleepWorkflow ==
  /\ inf.pc = "sleep_workflow"
  /\ inf' = [inf EXCEPT !.wf_sleeps = Count(@),
                        !.last_sleep = WorkflowInterval,
                        !.pc = "poll_workflow"]
  /\ UNCHANGED <<mon, dep, cln, par, tst, trn, pipe, nam>>

\* one iteration of "while not check_sagemaker_endpoint(...): time.sleep(60)"
InfCheckEndpoint(r) ==
  /\ inf.pc = "wait_endpoint"
  /\ inf' = [inf EXCEPT
       !.endpoint_status = r,
       !.ep_polls = Count(@),
       !.pc = IF CheckSagemakerEndpoint(r) THEN "test" ELSE @]
  /\ UNCHANGED <<mon, dep, cln, par, tst, trn, pipe, nam>>

\* test_endpoint: one invocation, whose error is printed; then main returns
InfTest(ok) ==
  /\ inf.pc = "test"
  /\ inf' = [inf EXCEPT !.invoked = IF ok THEN "ok" ELSE "failed",
                        !.pc = "done", !.exit_code = 0]
  /\ UNCHANGED <<mon, dep, cln, par, tst, trn, pipe, nam>>

InfNext ==
  \/ \E ok \in BOOLEAN : InfUpload(ok)
  \/ \E ok \in BOOLEAN : InfStartWorkflow(ok)
  \/ \E r \in WorkflowAnswers : InfPollWorkflow(r)
  \/ InfSleepWorkflow
  \/ \E r \in DescribeAnswers : InfCheckEndpoint(r)
  \/ \E ok \in BOOLEAN : InfTest(ok)


\* ==========================================================================
\* several runs of cleanup_failed_resources at the same time
\* (src/scripts/cleanup_failed_resources.py)
\* ==========================================================================
\* Each run is a process of its own; the runs share the control plane and
\* nothing else. A step of a run is one control-plane call with the code that
\* follows it up to the next call, so the describe_endpoint and the
\* delete_endpoint of one loop iteration are two steps and calls of other runs
\* can fall between them.

\* the endpoint states the runs start from
ParStatuses == {"absent", "Failed", "Creating", "InService"}

\* the operations refused to the caller: none, or one of these
ParDenied == {{}, {"delete_endpoint"}, {"delete_endpoint_config"}}

\* the orders in which a list of n candidates can be written down
Orders(n) ==
  {o \in [1..n -> 1..n] : \A a, b \in 1..n : a # b => o[a] # o[b]}

ParIdle ==
  [endpoints |-> <<>>, configs |-> {}, models |-> {}, denied |-> {},
   at_start |-> <<>>, proc |-> <<>>, raced |-> FALSE]

\* a run about to start, with its endpoint list written in the given order;
\* status is the EndpointStatus its last describe_endpoint returned while the
\* delete_endpoint that follows it is still to be made
ParProc(order, nc, nm) ==
  LET c0 == [pc |-> "idle", i |-> 0, status |-> "none",
             failed_endpoints |-> order,
             failed_configs |-> ListOf(nc),
             failed_models |-> ListOf(nm)]
      p == FirstFrom(c0, 1)
  IN [c0 EXCEPT !.pc = p.pc, !.i = p.i]

\* the runs procs about to start on a control plane that holds the endpoints
\* eps, the configs cfs and the models mds
ParStart(eps, cfs, mds, den, procs) ==
  LET c0 == [ParIdle EXCEPT !.endpoints = eps, !.configs = cfs,
                            !.models = mds, !.denied = den, !.proc = procs]
  IN [c0 EXCEPT !.at_start = Snapshot(c0)]

\* lines 31-35 and 39-49 of run p: describe_endpoint, and the rest of the
\* iteration unless the status calls for delete_endpoint
ParDescribe(p) ==
  /\ p \in DOMAIN par.proc
  /\ par.proc[p].pc = "endpoints"
  /\ par.proc[p].status = "none"
  /\ LET q == par.proc[p]
         name == q.failed_endpoints[q.i]
         a == CpDescribeEndpoint(par, name)
         isErr == a \in {"does not exist", "other"}
         act == IF isErr THEN "none" ELSE EndpointAction(a)
         line == IF isErr THEN HandleClientError(a) ELSE act
         nxt == Advance(q, 1, line)
     IN par' = [par EXCEPT
          !.proc[p] = IF act = "delete" THEN [q EXCEPT !.status = a]
                      ELSE [q EXCEPT !.pc = nxt.pc, !.i = nxt.i]]
  /\ UNCHANGED <<mon, dep, cln, inf, tst, trn, pipe, nam>>

\* lines 36-38 and 45-49 of run p: delete_endpoint after a status that calls
\* for it
ParDeleteEndpoint(p) ==
  /\ p \in DOMAIN par.proc
  /\ par.proc[p].pc = "endpoints"
  /\ par.proc[p].status # "none"
  /\ LET q == par.proc[p]
         name == q.failed_endpoints[q.i]
         d == CpDelete(par, "delete_endpoint", par.endpoints[name] # "absent")
         line == IF d = "ok" THEN "deletion initiated" ELSE HandleClientError(d)
         nxt == Advance(q, 1, line)
     IN par' = [par EXCEPT
          !.endpoints = IF d = "ok" THEN [@ EXCEPT ![name] = "absent"] ELSE @,
          !.raced = @ \/ d = "does not exist",
          !.proc[p] = [q EXCEPT !.status = "none", !.pc = nxt.pc, !.i = nxt.i]]
  /\ UNCHANGED <<mon, dep, cln, inf, tst, trn, pipe, nam>>

\* one iteration of "for config_name in failed_configs" of run p
ParConfig(p) ==
  /\ p \in DOMAIN par.proc
  /\ par.proc[p].pc = "configs"
  /\ LET q == par.proc[p]
         name == q.failed_configs[q.i]
         d == CpDelete(par, "delete_endpoint_config", name \in par.configs)
         line == IF d = "ok" THEN "deleted" ELSE HandleClientError(d)
         nxt == Advance(q, 2, line)
     IN par' = [par EXCEPT
          !.configs = IF d = "ok" THEN @ \ {name} ELSE @,
          !.proc[p] = [q EXCEPT !.pc = nxt.pc, !.i = nxt.i]]
  /\ UNCHANGED <<mon, dep, cln, inf, tst, trn, pipe, nam>>

\* one iteration of "for model_name in failed_models" of run p
ParModel(p) ==
  /\ p \in DOMAIN par.proc
  /\ par.proc[p].pc = "models"
  /\ LET q == par.proc[p]
         name == q.failed_models[q.i]
         d == CpDelete(par, "delete_model", name \in par.models)
         line == IF d = "ok" THEN "deleted" ELSE HandleClientError(d)
         nxt == Advance(q, 3, line)
     IN par' = [par EXCEPT
          !.models = IF d = "ok" THEN @ \ {name} ELSE @,
          !.proc[p] = [q EXCEPT !.pc = nxt.pc, !.i = nxt.i]]
  /\ UNCHANGED <<mon, dep, cln, inf, tst, trn, pipe, nam>>

ParNext ==
  \/ \E p \in 1..2 : ParDescribe(p)
  \/ \E p \in 1..2 : ParDeleteEndpoint(p)
  \/ \E p \in 1..2 : ParConfig(p)
  \/ \E p \in 1..2 : ParModel(p)


\* ==========================================================================
\* the sample loops of the invocation tests
\*   "batch"   test_batch_predictions     (src/test_endpoint.py)
\*   "script"  test_endpoint_predictions  (src/scripts/test_endpoint_predictions.py)
\*   "github"  test_endpoint, predict_temperature
\*                                        (src/test_endpoint_predictions_github.py)
\*   "new"     test_latest_endpoint       (src/scripts/test_new_endpoint.py)
\* ==========================================================================

\* the length of the literal list test_samples
TestSamples == 5

TestVariants == {"batch", "script", "github", "new"}

\* what invoking the endpoint on one sample comes to: a body float() parses,
\* an error raised by invoke_endpoint, or a body float() rejects
InvokeOutcomes == {"ok", "invoke_error", "unparsable"}

\* the line an iteration prints for a sample: both kinds of failure raise
\* inside the try block (inside predict_temperature, for "github", which then
\* returns None) and come to the same line
SampleLine(outcome) ==
  IF outcome = "ok" THEN "prediction" ELSE "error"

\* predictions after the sample: only test_batch_predictions keeps a list, and
\* it appends to it at the end of the try block only
AppendPrediction(variant, predictions, sample, outcome) ==
  IF variant = "batch" /\ outcome = "ok"
  THEN Append(predictions, [sample |-> sample])
  ELSE predictions

\* (faulty variant of AfterSample, for comparison: a failed sample ends the loop)
AfterSample_Abort(i, n, outcome) ==
  IF outcome # "ok" THEN "done"
  ELSE IF i < n THEN "loop" ELSE "done"

\* where the loop is after sample i of n: the except clause is inside the loop
\* body, so the next sample follows whatever the outcome
AfterSample(i, n, outcome) ==
  IF i < n THEN "loop" ELSE "done"

\* sample['features'][0] of the literal samples, in tenths of a degree (for
\* "github" the sample's context['temperature'], which repeats it); the other
\* two tests do not look at it
FirstFeature(variant, i) ==
  IF variant = "github" THEN <<255, 321, 287, 223, 352>>[i]
  ELSE IF variant = "new" THEN <<185, 283, 227, 162, 351>>[i]
  ELSE 0

\* the literals of the validation, in tenths of a degree: the range a
\* prediction is expected in and the largest expected change
Validation(variant) ==
  IF variant = "github" THEN [lo |-> 50, hi |-> 500, max_change |-> 50]
  ELSE [lo |-> 100, hi |-> 400, max_change |-> 100]

\* the predictions an endpoint can answer for an input whose first feature is
\* current: at and next to each limit of the validation
Predictions(variant, current) ==
  LET v == Validation(variant)
  IN {current, current + v.max_change, current + v.max_change + 1,
      current - v.max_change - 1, v.lo - 1, v.lo, v.hi, v.hi + 1}

Abs(x) == IF x < 0 THEN -x ELSE x

\* (faulty variant of ValidationLine, for comparison: only the range is
\* looked at)
ValidationLine_RangeOnly(variant, prediction, current) ==
  IF variant \notin {"github", "new"} THEN "none"
  ELSE IF Validation(variant).lo <= prediction
          /\ prediction <= Validation(variant).hi THEN "reasonable"
  ELSE "unrealistic"

\* the validation line printed for a prediction: the nested if of test_endpoint,
\* the conditional expression of test_latest_endpoint; the other two tests
\* print none
ValidationLine(variant, prediction, current) ==
  LET v == Validation(variant)
      change == prediction - current
  IN IF variant = "github"
     THEN IF v.lo <= prediction /\ prediction <= v.hi
          THEN IF Abs(change) <= v.max_change THEN "reasonable"
               ELSE "large_change"
          ELSE "unrealistic"
     ELSE IF variant = "new"
     THEN IF v.lo <= prediction /\ prediction <= v.hi
             /\ Abs(change) <= v.max_change
          THEN "reasonable" ELSE "unrealistic"
     ELSE "none"

\* what the function returns at the end of the loop
TestReturn(variant) ==
  IF variant = "batch" THEN "predictions" ELSE "None"

TstIdle ==
  [pc |-> "idle", variant |-> "none", n |-> 0, i |-> 0,
   invoked |-> <<>>, predictions |-> <<>>, printed |-> <<>>,
   result |-> "none", validation |-> <<>>, prediction |-> 0, current |-> 0,
   checked |-> "none", single |-> "none"]

\* the test about to enter its loop over n samples
TstStart(variant, n) ==
  [TstIdle EXCEPT !.variant = variant, !.n = n, !.i = 1,
                  !.pc = IF n > 0 THEN "loop" ELSE "done",
                  !.result = IF n > 0 THEN "none" ELSE TestReturn(variant)]

\* one iteration of the loop: invoke the endpoint on sample i, parse the body,
\* print the prediction, with its validation line, or the error
TstSample(outcome, prediction) ==
  /\ tst.pc = "loop"
  /\ LET pc1 == AfterSample(tst.i, tst.n, outcome)
         current == FirstFeature(tst.variant, tst.i)
     IN tst' = [tst EXCEPT
          !.prediction = IF outcome = "ok" THEN prediction ELSE 0,
          !.current = IF outcome = "ok" THEN current ELSE 0,
          !.validation = Append(@,
             IF outcome = "ok"
             THEN ValidationLine(tst.variant, prediction, current)
             ELSE "none"),
          !.invoked = Append(@, tst.i),
          !.predictions = AppendPrediction(tst.variant, @, tst.i, outcome),
          !.printed = Append(@, [sample |-> tst.i, line |-> SampleLine(outcome)]),
          !.i = IF pc1 = "loop" THEN @ + 1 ELSE @,
          !.pc = pc1,
          !.result = IF pc1 = "done" THEN TestReturn(tst.variant) ELSE @]
  /\ UNCHANGED <<mon, dep, cln, inf, par, trn, pipe, nam>>

\* the number of samples main of src/test_endpoint.py asks
\* test_batch_predictions for
MainSamples == 10

\* the scripts whose entry point checks the endpoint before it tests it: main
\* of src/test_endpoint.py ("batch") and the __main__ block of
\* src/test_endpoint_predictions_github.py ("github")
MainVariants == {"batch", "github"}

\* (faulty variant of EndpointReady, for comparison: only a Failed endpoint
\* and an error are turned away)
EndpointReady_NotFailed(r) == r \notin {"Failed", "error"}

\* check_endpoint_status and check_endpoint_exists: True for an answer with
\* status InService; False for any other status and for any error
EndpointReady(r) == r = "InService"

\* the entry point, with an endpoint name, about to check the endpoint
TstMain(variant) ==
  [TstIdle EXCEPT !.variant = variant, !.pc = "check"]

\* the check, on the answer r of describe_endpoint: when it is False main
\* returns ("batch") or exits ("github"); else "github" goes to test_endpoint
\* and "batch" to test_single_prediction
TstCheck(r) ==
  /\ tst.pc = "check"
  /\ tst' = IF ~EndpointReady(r) THEN [tst EXCEPT !.checked = r, !.pc = "exit"]
            ELSE IF tst.variant = "github"
            THEN [TstStart("github", TestSamples) EXCEPT !.checked = r]
            ELSE [tst EXCEPT !.checked = r, !.pc = "single"]
  /\ UNCHANGED <<mon, dep, cln, inf, par, trn, pipe, nam>>

\* test_single_prediction: one invocation; None for an error, after which
\* main does not go on to the batch
TstSingle(outcome) ==
  /\ tst.pc = "single"
  /\ tst' = IF outcome = "ok"
            THEN [TstStart("batch", MainSamples) EXCEPT
                    !.checked = tst.checked, !.single = "ok"]
            ELSE [tst EXCEPT !.single = "failed", !.pc = "exit"]
  /\ UNCHANGED <<mon, dep, cln, inf, par, trn, pipe, nam>>

TstNext ==
  \/ /\ tst.pc = "loop"
     /\ \E outcome \in InvokeOutcomes :
          \E prediction \in
               Predictions(tst.variant, FirstFeature(tst.variant, tst.i)) :
            TstSample(outcome, prediction)
  \/ \E r \in DescribeAnswers : TstCheck(r)
  \/ \E outcome \in InvokeOutcomes : TstSingle(outcome)

\* ==========================================================================
\* start_training_job, check_training_status
\* (src/scripts/start_training_job_github.py)
\* ==========================================================================

\* TrainingJobStatus values describe_training_job can answer with
TrainingStatuses == {"InProgress", "Completed", "Failed", "Stopped"}

\* the statuses the control plane will report for the job, one per
\* describe_training_job call from the first on (the last one from then on)
StatusSequences ==
  UNION {[1..k -> TrainingStatuses] : k \in 1..MaxStatusChanges}

\* the answer to describe_training_job number poll
StatusAt(job_statuses, poll) ==
  IF poll <= Len(job_statuses) THEN job_statuses[poll]
  ELSE job_statuses[Len(job_statuses)]

\* what start_training_job prints after its describe_training_job
InitialStatusLines(status) ==
  IF status = "Failed" THEN <<"Initial Status", "Training job failed">>
  ELSE <<"Initial Status", "Monitor progress with">>

\* what check_training_status prints for a status
StatusLines(status) ==
  IF status = "Completed" THEN <<"Training Job Status", "Model artifacts">>
  ELSE IF status = "Failed" THEN <<"Training Job Status", "Training failed">>
  ELSE IF status = "InProgress" THEN <<"Training Job Status", "Training in progress">>
  ELSE <<"Training Job Status">>

\* what start_training_job returns once its describe_training_job has answered:
\* the job name, whatever the status
StartReturn(status) == "job_name"

TrnIdle ==
  [pc |-> "idle", function |-> "none", job_statuses |-> <<>>,
   created |-> FALSE, polls |-> 0, status |-> "none", printed |-> <<>>,
   raised |-> FALSE, result |-> "none"]

\* start_training_job about to call create_training_job, or
\* check_training_status about to call describe_training_job
TrnStart(function, job_statuses) ==
  [TrnIdle EXCEPT
     !.function = function, !.job_statuses = job_statuses,
     !.created = function = "check_training_status",
     !.pc = IF function = "start_training_job" THEN "create" ELSE "describe"]

\* start_training_job, lines 88-103: create_training_job, then time.sleep(5);
\* an error goes to the except clause, which returns None
TrnCreate(ok) ==
  /\ trn.pc = "create"
  /\ trn' = IF ok THEN [trn EXCEPT !.created = TRUE, !.pc = "describe"]
            ELSE [trn EXCEPT !.raised = TRUE, !.result = "None", !.pc = "done"]
  /\ UNCHANGED <<mon, dep, cln, inf, par, tst, pipe, nam>>

\* the one describe_training_job call of either function and what follows it
\* up to the return
TrnDescribe(ok) ==
  /\ trn.pc = "describe"
  /\ LET status == StatusAt(trn.job_statuses, trn.polls + 1)
     IN trn' =
          IF ~ok
          THEN [trn EXCEPT !.polls = @ + 1, !.raised = TRUE,
                           !.result = "None", !.pc = "done"]
          ELSE IF trn.function = "start_training_job"
          THEN [trn EXCEPT !.polls = @ + 1, !.status = status,
                           !.printed = InitialStatusLines(status),
                           !.result = StartReturn(status), !.pc = "done"]
          ELSE [trn EXCEPT !.polls = @ + 1, !.status = status,
                           !.printed = StatusLines(status),
                           !.result = status, !.pc = "done"]
  /\ UNCHANGED <<mon, dep, cln, inf, par, tst, pipe, nam>>

TrnNext ==
  \/ \E ok \in BOOLEAN : TrnCreate(ok)
  \/ \E ok \in BOOLEAN : TrnDescribe(ok)

\* ==========================================================================
\* run_full_ml_pipeline (src/scripts/run_full_pipeline.py)
\* ==========================================================================

\* MaxResults of the list_training_jobs request
MaxResults == 3

\* what list_objects_v2 answers for the prefix 'training/': a KeyCount, a
\* response without one, or an error
ListObjectsAnswers ==
  {[raises |-> TRUE, has |-> FALSE, KeyCount |-> 0],
   [raises |-> FALSE, has |-> FALSE, KeyCount |-> 0]}
  \cup {[raises |-> FALSE, has |-> TRUE, KeyCount |-> n] : n \in 0..MaxKeys}

\* what list_endpoints (MaxResults=1) answers: no endpoint, the status of the
\* most recently created one, or an error
ListEndpointsAnswers == {"error", "empty"} \cup EndpointStatuses

\* the training jobs whose name contains 'sensor-prediction', named 1..n in
\* the order of their creation, each with its TrainingJobStatus
JobSets == UNION {[1..n -> TrainingStatuses] : n \in 0..MaxJobs}

\* list_training_jobs(SortBy='CreationTime', SortOrder='Descending',
\* MaxResults=3): the most recently created jobs, newest first
ListTrainingJobs(jobs) ==
  LET n == Len(jobs)
      m == IF n < MaxResults THEN n ELSE MaxResults
  IN [k \in 1..m |-> n - k + 1]

\* training_objects.get('KeyCount', 0)
KeyCount(r) == IF r.has THEN r.KeyCount ELSE 0

\* (faulty variant of DataAvailable, for comparison: the run goes on without data)
DataAvailable_Always(key_count) == TRUE

\* the test of line 33, negated
DataAvailable(key_count) == key_count # 0

\* (faulty variant of LatestSuccessful, for comparison: the loop has no break, so
\* the last Completed job of the list wins)
LatestSuccessful_NoBreak(training_jobs, jobs) ==
  LET done == {k \in 1..Len(training_jobs) : jobs[training_jobs[k]] = "Completed"}
  IN IF done = {} THEN 0
     ELSE training_jobs[CHOOSE k \in done : \A j \in done : j <= k]

\* lines 48-52: the first job of the list whose status is Completed, 0 for None
LatestSuccessful(training_jobs, jobs) ==
  LET done == {k \in 1..Len(training_jobs) : jobs[training_jobs[k]] = "Completed"}
  IN IF done = {} THEN 0
     ELSE training_jobs[CHOOSE k \in done : \A j \in done : k <= j]

\* line 56: the artifact location, made of the models bucket and the job name
ModelArtifactsPath(job) ==
  <<"s3://", "bucket_models", "/output/", job, "/output/model.tar.gz">>

\* (faulty variant of ActiveEndpoint, for comparison: any listed endpoint is taken)
ActiveEndpoint_AnyStatus(r) == r # "empty"

\* lines 72-79: active_endpoint is set only for a listed endpoint InService
ActiveEndpoint(r) == r = "InService"

PipeIdle ==
  [pc |-> "idle", jobs |-> <<>>, calls |-> <<>>, key_count |-> -1,
   listed |-> FALSE, training_jobs |-> <<>>, latest_successful_job |-> 0,
   model_artifacts_path |-> <<>>, endpoint_status |-> "none",
   active_endpoint |-> FALSE, prediction |-> FALSE, summary |-> FALSE,
   result |-> "none"]

\* the run about to list the training data
PipeStart(jobs) ==
  [PipeIdle EXCEPT !.pc = "list_objects", !.jobs = jobs]

\* (faulty variant of NoJobCalls, for comparison: a training job is started)
NoJobCalls_StartsTraining(job) ==
  IF job = 0 THEN <<"create_training_job">> ELSE <<>>

\* the calls of lines 57-61, taken when no listed job is Completed: the branch
\* prints "Starting new training..." and "Please run start_training_job.py
\* first." and returns; it calls nothing
NoJobCalls(job) == <<>>

\* (faulty variant of PipeFail, for comparison: the exception leaves the
\* function)
PipeFail_Raise(p) == [p EXCEPT !.pc = "done", !.result = "raised"]

\* the except clause of line 115, and every "return False"
PipeFail(p) == [p EXCEPT !.pc = "done", !.result = "False"]

\* step 1, lines 29-37
PipeListObjects(r) ==
  /\ pipe.pc = "list_objects"
  /\ LET p == [pipe EXCEPT !.calls = Append(@, "list_objects_v2")]
     IN pipe' =
          IF r.raises THEN PipeFail(p)
          ELSE IF ~DataAvailable(KeyCount(r))
               THEN PipeFail([p EXCEPT !.key_count = KeyCount(r)])
          ELSE [p EXCEPT !.key_count = KeyCount(r), !.pc = "list_training_jobs"]
  /\ UNCHANGED <<mon, dep, cln, inf, par, tst, trn, nam>>

\* step 2, lines 39-61
PipeListTrainingJobs(ok) ==
  /\ pipe.pc = "list_training_jobs"
  /\ LET p == [pipe EXCEPT !.calls = Append(@, "list_training_jobs")]
         training_jobs == ListTrainingJobs(pipe.jobs)
         job == LatestSuccessful(training_jobs, pipe.jobs)
     IN pipe' =
          IF ~ok THEN PipeFail(p)
          ELSE IF job = 0
               THEN PipeFail([p EXCEPT !.listed = TRUE,
                                       !.training_jobs = training_jobs,
                                       !.calls = @ \o NoJobCalls(job)])
          ELSE [p EXCEPT !.listed = TRUE, !.training_jobs = training_jobs,
                         !.latest_successful_job = job,
                         !.model_artifacts_path = ModelArtifactsPath(job),
                         !.pc = "list_endpoints"]
  /\ UNCHANGED <<mon, dep, cln, inf, par, tst, trn, nam>>

\* step 3, lines 63-84
PipeListEndpoints(r) ==
  /\ pipe.pc = "list_endpoints"
  /\ LET p == [pipe EXCEPT !.calls = Append(@, "list_endpoints")]
     IN pipe' =
          IF r = "error" THEN PipeFail(p)
          ELSE IF ~ActiveEndpoint(r)
               THEN PipeFail([p EXCEPT !.endpoint_status = r])
          ELSE [p EXCEPT !.endpoint_status = r, !.active_endpoint = TRUE,
                         !.pc = "invoke"]
  /\ UNCHANGED <<mon, dep, cln, inf, par, tst, trn, nam>>

\* steps 4 and 5, lines 86-113: invoke_endpoint, then the summary
PipeInvoke(ok) ==
  /\ pipe.pc = "invoke"
  /\ LET p == [pipe EXCEPT !.calls = Append(@, "invoke_endpoint")]
     IN pipe' =
          IF ~ok THEN PipeFail(p)
          ELSE [p EXCEPT !.prediction = TRUE, !.summary = TRUE,
                         !.result = "True", !.pc = "done"]
  /\ UNCHANGED <<mon, dep, cln, inf, par, tst, trn, nam>>

\* the exit status of "python run_full_pipeline.py": __main__ calls
\* run_full_ml_pipeline(), drops what it returns and falls off the end
PipelineExitCode(result) == 0

PipeNext ==
  \/ \E r \in ListObjectsAnswers : PipeListObjects(r)
  \/ \E ok \in BOOLEAN : PipeListTrainingJobs(ok)
  \/ \E r \in ListEndpointsAnswers : PipeListEndpoints(r)
  \/ \E ok \in BOOLEAN : PipeInvoke(ok)

\* ==========================================================================
\* resource names over successive runs
\*   deploy_model        (src/scripts/deploy_model.py, deploy_model_github.py)
\*   start_training_job  (src/start_training_job.py,
\*                        src/scripts/start_training_job_github.py)
\* ==========================================================================

\* the instants, in seconds, at which a run can start
Instants ==
  {h * 3600 + sec : h \in 0..MaxHours, sec \in 0..MaxSeconds}

\* the time zone of the machine: its offset from UTC before and from the
\* instant "at" on. One zone never changes its offset; the other is two hours
\* ahead of UTC and sets its clocks back by one hour at instant 3600.
Zones ==
  {[before |-> 0, after |-> 0, at |-> 0],
   [before |-> 7200, after |-> 3600, at |-> 3600]}

\* datetime.now(): the wall-clock time of the machine's zone at instant t,
\* without zone information
LocalNow(zone, t) ==
  t + (IF t < zone.at THEN zone.before ELSE zone.after)

\* .strftime('%Y%m%d-%H%M%S'): the date, hour, minute and second fields of a
\* wall-clock time given in seconds
Strftime(w) ==
  <<w \div 86400, (w % 86400) \div 3600, (w % 3600) \div 60, w % 60>>

\* f'{prefix}-{timestamp}'
GenerateName(prefix, zone, t) ==
  [prefix |-> prefix, timestamp |-> Strftime(LocalNow(zone, t))]

\* the optional model_name and endpoint_name arguments of deploy_model in
\* deploy_model_github.py: None, or a name of the caller's
CallerNames == {"None", "custom"}

\* "if not model_name: model_name = ..."
NameOrDefault(name, prefix, zone, t) ==
  IF name = "None" THEN GenerateName(prefix, zone, t)
  ELSE [prefix |-> name, timestamp |-> <<>>]

\* the names a deployment run that starts at t puts in its creation calls.
\* deploy_model_github.py reads the clock once and builds the three names from
\* that reading; deploy_model.py reads the clock once per name, d1 seconds
\* having passed between the first and the second reading and d2 between the
\* second and the third.
DeployNames(variant, model_name, endpoint_name, zone, t, d1, d2) ==
  IF variant = "github"
  THEN [model |-> NameOrDefault(model_name, "sensor-prediction-model", zone, t),
        config |-> GenerateName("sensor-prediction-config", zone, t),
        endpoint |-> NameOrDefault(endpoint_name, "sensor-prediction-endpoint",
                                   zone, t)]
  ELSE [model |-> GenerateName("sensor-prediction-model", zone, t),
        config |-> GenerateName("sensor-prediction-config", zone, t + d1),
        endpoint |-> GenerateName("sensor-prediction-endpoint", zone,
                                  t + d1 + d2)]

\* the whole seconds the clock can advance between two consecutive statements
ClockSteps == {0, 1}

NamIdle ==
  [pc |-> "idle", zone |-> [before |-> 0, after |-> 0, at |-> 0],
   now |-> 0, runs |-> 0, created |-> <<>>]

\* a machine in the given zone at instant t, before any run
NamStart(zone, t) ==
  [NamIdle EXCEPT !.pc = "ready", !.zone = zone, !.now = t]

\* time passes until instant t
NamTick(t) ==
  /\ nam.pc = "ready"
  /\ t > nam.now
  /\ nam' = [nam EXCEPT !.now = t]
  /\ UNCHANGED <<mon, dep, cln, inf, par, tst, trn, pipe>>

\* a run of deploy_model: the names it makes and its three creation calls
NamDeploy(variant, model_name, endpoint_name, d1, d2) ==
  /\ nam.pc = "ready"
  /\ nam.runs < MaxRuns
  /\ variant = "script" => (model_name = "None" /\ endpoint_name = "None")
  /\ variant = "github" => (d1 = 0 /\ d2 = 0)
  /\ LET n == DeployNames(variant, model_name, endpoint_name, nam.zone, nam.now,
                          d1, d2)
         r == nam.runs + 1
     IN nam' = [nam EXCEPT
          !.runs = r,
          !.now = @ + d1 + d2,
          !.created = @ \o
            <<[run |-> r, kind |-> "model", name |-> n.model, at |-> nam.now],
              [run |-> r, kind |-> "config", name |-> n.config,
               at |-> nam.now + d1],
              [run |-> r, kind |-> "endpoint", name |-> n.endpoint,
               at |-> nam.now + d1 + d2]>>]
  /\ UNCHANGED <<mon, dep, cln, inf, par, tst, trn, pipe>>

\* a run of start_training_job: the job name and its creation call
NamTrain ==
  /\ nam.pc = "ready"
  /\ nam.runs < MaxRuns
  /\ LET r == nam.runs + 1
     IN nam' = [nam EXCEPT
          !.runs = r,
          !.created = Append(@,
            [run |-> r, kind |-> "training",
             name |-> GenerateName("sensor-prediction-training", nam.zone, nam.now),
             at |-> nam.now])]
  /\ UNCHANGED <<mon, dep, cln, inf, par, tst, trn, pipe>>

NamNext ==
  \/ \E t \in Instants : NamTick(t)
  \/ \E v \in Variants, m \in CallerNames, n \in CallerNames :
       \E d1 \in ClockSteps, d2 \in ClockSteps : NamDeploy(v, m, n, d1, d2)
  \/ NamTrain

\* ==========================================================================
\* specifications
\* ==========================================================================

InitMonitor ==
  /\ mon \in {MonStart(m, t0) : m \in 0..MaxWaitMinutes, t0 \in StartTimes}
  /\ dep = DepIdle /\ cln = ClnIdle /\ inf = InfIdle
  /\ par = ParIdle /\ tst = TstIdle /\ trn = TrnIdle /\ pipe = PipeIdle
  /\ nam = NamIdle

SpecMonitor == InitMonitor /\ [][MonNext]_vars

InitDeployModel ==
  /\ dep \in {DepStart(v) : v \in Variants}
  /\ mon = MonIdle /\ cln = ClnIdle /\ inf = InfIdle
  /\ par = ParIdle /\ tst = TstIdle /\ trn = TrnIdle /\ pipe = PipeIdle
  /\ nam = NamIdle

SpecDeployModel == InitDeployModel /\ [][DepNext]_vars

\* the two endpoint polls: the monitor and the waiter inside deploy_model
InitPoll ==
  /\ \E p \in {<<MonStart(m, t0), DepIdle>> :
                   m \in 0..MaxWaitMinutes, t0 \in StartTimes}
               \cup {<<MonIdle, DepStart(v)>> : v \in Variants} :
       mon = p[1] /\ dep = p[2]
  /\ cln = ClnIdle /\ inf = InfIdle
  /\ par = ParIdle /\ tst = TstIdle /\ trn = TrnIdle /\ pipe = PipeIdle
  /\ nam = NamIdle

NextPoll == MonNext \/ DepNext

SpecPoll == InitPoll /\ [][NextPoll]_vars

InitCleanup ==
  /\ cln \in {ClnStart(eps, cfs, mds, den, MaxConfigs, MaxModels) :
               eps \in [1..MaxEndpoints -> EndpointStatuses \cup {"absent"}],
               cfs \in SUBSET (1..MaxConfigs),
               mds \in SUBSET (1..MaxModels),
               den \in SUBSET CleanupOps}
  /\ mon = MonIdle /\ dep = DepIdle /\ inf = InfIdle
  /\ par = ParIdle /\ tst = TstIdle /\ trn = TrnIdle /\ pipe = PipeIdle
  /\ nam = NamIdle

SpecCleanup == InitCleanup /\ [][ClnNext]_vars

InitInfra ==
  /\ inf \in {InfStart(e) : e \in BOOLEAN}
  /\ mon = MonIdle /\ dep = DepIdle /\ cln = ClnIdle
  /\ par = ParIdle /\ tst = TstIdle /\ trn = TrnIdle /\ pipe = PipeIdle
  /\ nam = NamIdle

SpecInfra == InitInfra /\ [][InfNext]_vars

\* the process is single-threaded and never stops of itself between two steps
SpecInfraFair == SpecInfra /\ WF_vars(InfNext)

\* one run, or two at the same time; the first writes its endpoint list in any
\* order, the second in the order of the source
InitSweeps ==
  /\ par \in {ParStart(eps, cfs, mds, den, procs) :
               eps \in [1..MaxEndpoints -> ParStatuses],
               cfs \in SUBSET (1..MaxConfigs),
               mds \in SUBSET (1..MaxModels),
               den \in ParDenied,
               procs \in
                 {<<ParProc(o, MaxConfigs, MaxModels)>> :
                     o \in Orders(MaxEndpoints)}
                 \cup {<<ParProc(o, MaxConfigs, MaxModels),
                         ParProc(ListOf(MaxEndpoints), MaxConfigs, MaxModels)>> :
                     o \in Orders(MaxEndpoints)}}
  /\ mon = MonIdle /\ dep = DepIdle /\ cln = ClnIdle /\ inf = InfIdle
  /\ tst = TstIdle /\ trn = TrnIdle /\ pipe = PipeIdle
  /\ nam = NamIdle

SpecSweeps == InitSweeps /\ [][ParNext]_vars

\* test_batch_predictions with any num_samples; the other two with their lists
InitInvocationTest ==
  /\ tst \in {TstStart("batch", n) : n \in 0..MaxSamples}
             \cup {TstStart(v, TestSamples) : v \in {"script", "github", "new"}}
             \cup {TstMain(v) : v \in MainVariants}
  /\ mon = MonIdle /\ dep = DepIdle /\ cln = ClnIdle /\ inf = InfIdle
  /\ par = ParIdle /\ trn = TrnIdle /\ pipe = PipeIdle
  /\ nam = NamIdle

SpecInvocationTest == InitInvocationTest /\ [][TstNext]_vars

InitTraining ==
  /\ trn \in {TrnStart(f, s) :
               f \in {"start_training_job", "check_training_status"},
               s \in StatusSequences}
  /\ mon = MonIdle /\ dep = DepIdle /\ cln = ClnIdle /\ inf = InfIdle
  /\ par = ParIdle /\ tst = TstIdle /\ pipe = PipeIdle
  /\ nam = NamIdle

SpecTraining == InitTraining /\ [][TrnNext]_vars

InitPipeline ==
  /\ pipe \in {PipeStart(jobs) : jobs \in JobSets}
  /\ mon = MonIdle /\ dep = DepIdle /\ cln = ClnIdle /\ inf = InfIdle
  /\ par = ParIdle /\ tst = TstIdle /\ trn = TrnIdle
  /\ nam = NamIdle

SpecPipeline == InitPipeline /\ [][PipeNext]_vars

\* the two loops that sleep 30 seconds between fetches: the monitor, and the
\* workflow wait inside main
InitPollLoops ==
  /\ \E p \in {<<MonStart(m, t0), InfIdle>> :
                   m \in 0..MaxWaitMinutes, t0 \in StartTimes}
               \cup {<<MonIdle, InfStart(e)>> : e \in BOOLEAN} :
       mon = p[1] /\ inf = p[2]
  /\ dep = DepIdle /\ cln = ClnIdle
  /\ par = ParIdle /\ tst = TstIdle /\ trn = TrnIdle /\ pipe = PipeIdle
  /\ nam = NamIdle

NextPollLoops == MonNext \/ InfNext

SpecPollLoops == InitPollLoops /\ [][NextPollLoops]_vars

InitNaming ==
  /\ nam \in {NamStart(z, t) : z \in Zones, t \in Instants}
  /\ mon = MonIdle /\ dep = DepIdle /\ cln = ClnIdle /\ inf = InfIdle
  /\ par = ParIdle /\ tst = TstIdle /\ trn = TrnIdle /\ pipe = PipeIdle

SpecNaming == InitNaming /\ [][NamNext]_vars

\* the programs that invoke an endpoint after looking at its status: the
\* monitor, the orchestrated run, and the two test entry points
InitInvokeGuard ==
  /\ \E p \in {<<MonStart(m, t0), PipeIdle, TstIdle>> :
                   m \in 0..MaxWaitMinutes, t0 \in StartTimes}
               \cup {<<MonIdle, PipeStart(jobs), TstIdle>> : jobs \in JobSets}
               \cup {<<MonIdle, PipeIdle, TstMain(v)>> : v \in MainVariants} :
       mon = p[1] /\ pipe = p[2] /\ tst = p[3]
  /\ dep = DepIdle /\ cln = ClnIdle /\ inf = InfIdle
  /\ par = ParIdle /\ trn = TrnIdle
  /\ nam = NamIdle

NextInvokeGuard == MonNext \/ PipeNext \/ TstNext

SpecInvokeGuard == InitInvokeGuard /\ [][NextInvokeGuard]_vars

\* ==========================================================================
\* properties
\* ==========================================================================

Terminal == {"InService", "Failed"}

\* C1 as stated (SpecPoll): an endpoint poll returns a terminal result if and
\* only if a fetch made within the allotted attempts or time returned a
\* terminal status, returns TimedOut in every other case, and is never still
\* waiting once the ceiling has passed.
C1_TerminalIffWithinCeiling ==
  /\ (mon.pc = "done" /\ mon.branch # "error") =>
       /\ (mon.branch \in Terminal) <=> mon.termInTime
       /\ (~mon.termInTime) => mon.branch = "timeout"
  /\ (mon.pc \in {"poll", "sleep"}) =>
       mon.clock - mon.start_time <= mon.max_wait_seconds
  /\ (dep.wait \in {"success", "failure"}) <=> dep.termSeen
  /\ dep.attempts <= MaxAttempts

\* C1 amended (SpecPoll): a poll returns a terminal result if and only if one
\* of the fetches it made returned a terminal status, and that fetch is its
\* last. The waiter makes at most MaxAttempts fetches and reports the ceiling
\* right after the MaxAttempts-th non-terminal one. The monitor fetches until
\* the first fetch that finds the elapsed time above the ceiling: a terminal
\* status fetched then is still returned, a non-terminal one gives the timeout
\* branch; it starts a sleep only while the elapsed time is within the ceiling,
\* so it is never waiting more than one interval past it.
C1_PollOutcome ==
  /\ (mon.pc = "done" /\ mon.branch # "error") =>
       /\ (mon.branch \in Terminal) <=> mon.termSeen
       /\ (mon.branch \in Terminal) => mon.branch = mon.status
       /\ (mon.branch = "timeout") <=> ~mon.termSeen
       /\ (mon.branch = "timeout") => mon.elapsed_time > mon.max_wait_seconds
  /\ (mon.pc \in {"poll", "sleep"}) => ~mon.termSeen
  /\ (mon.pc = "sleep") => mon.elapsed_time <= mon.max_wait_seconds
  /\ (mon.pc \in {"poll", "sleep"}) =>
       mon.clock - mon.start_time <= mon.max_wait_seconds + Interval
  /\ (dep.wait = "success") <=> (dep.termSeen /\ dep.status = "InService")
  /\ (dep.wait = "failure") <=> (dep.termSeen /\ dep.status = "Failed")
  /\ (dep.wait = "max_attempts") =>
       (~dep.termSeen /\ dep.attempts = MaxAttempts /\ dep.status # "error")
  /\ (dep.pc = "wait") => (~dep.termSeen /\ dep.attempts < MaxAttempts)
  /\ dep.attempts <= MaxAttempts
  /\ dep.sleeps <= MaxAttempts - 1

\* the monitor returned InService from a fetch made after the ceiling had
\* passed, having slept at least once
C1_Witness ==
  /\ mon.pc = "done"
  /\ mon.branch = "InService"
  /\ mon.sleeps > 0
  /\ mon.elapsed_time > mon.max_wait_seconds

\* C2 as stated (SpecInfraFair): the workflow-run wait and the endpoint-readiness
\* wait of src/deploy.py end for every behaviour of the control plane: main
\* reaches its end or the process exits.
C2_EveryLoopTerminates == <>(inf.pc \in {"done", "exit"})

\* the calls deploy_model has made, by position
CallIndex == 1..Len(dep.calls)

Succeeded(k, op) == dep.calls[k].op = op /\ dep.calls[k].ok

CreateOps == {"create_model", "create_endpoint_config", "create_endpoint"}

\* C3 (SpecDeployModel): create_endpoint is called only after create_model and
\* then create_endpoint_config returned in the same run, create_endpoint_config
\* only after create_model returned, and a creation call that raises is the
\* last call of the run.
C3_CreateOrder ==
  \A k \in CallIndex :
    /\ dep.calls[k].op = "create_endpoint" =>
         \E i, j \in 1..(k - 1) :
           i < j /\ Succeeded(i, "create_model")
                 /\ Succeeded(j, "create_endpoint_config")
    /\ dep.calls[k].op = "create_endpoint_config" =>
         \E i \in 1..(k - 1) : Succeeded(i, "create_model")
    /\ (dep.calls[k].op \in CreateOps /\ ~dep.calls[k].ok) =>
         (k = Len(dep.calls) /\ dep.pc = "done")

\* create_endpoint has been called
C3_Witness ==
  \E k \in CallIndex : dep.calls[k].op = "create_endpoint"

\* C4 as stated (SpecDeployModel): when the endpoint is Creating at each of the
\* MaxAttempts polls of the wait, the outcome of the run is TimedOut.
C4_TimeoutIsNotFailure ==
  (dep.pc = "done" /\ dep.wait = "max_attempts" /\ dep.onlyCreating) =>
    RunOutcome(dep.variant, dep.result) = "TimedOut"

\* C5 as stated (SpecMonitor): what the monitor returns when the ceiling is
\* exceeded without a terminal status differs from what it returns when the
\* status is Failed.
C5_TimeoutDistinctFromFailed ==
  (mon.pc = "done" /\ mon.branch = "timeout") =>
    mon.result # MonitorReturn("Failed")

\* the calls and the printed lines of a sweep, by position
SweepCalls == 1..Len(cln.calls)
SweepLines == 1..Len(cln.report)

\* the operation that tells the sweep whether a candidate of a kind exists
KindOp(kind) ==
  IF kind = "endpoint" THEN "describe_endpoint"
  ELSE IF kind = "config" THEN "delete_endpoint_config"
  ELSE "delete_model"

\* a candidate is absent in a snapshot of the control plane
AbsentIn(snap, kind, name) ==
  IF kind = "endpoint" THEN snap.endpoints[name] = "absent"
  ELSE IF kind = "config" THEN name \notin snap.configs
  ELSE name \notin snap.models

\* the lines the sweep prints with a check mark
SuccessLines == {"deletion initiated", "deleted", "does not exist"}

\* C6 (SpecCleanup): a second sweep over the same candidate lists leaves the
\* endpoints, configs and models that exist as the first sweep left them, and
\* prints the "does not exist" success line for every candidate that was absent
\* when it started (and whose operation the control plane serves).
C6_SweepIdempotent ==
  cln.sweep = 2 =>
    /\ Snapshot(cln) = cln.after1
    /\ \A k \in SweepLines :
         LET r == cln.report[k] IN
         (r.sweep = 2 /\ AbsentIn(cln.after1, r.kind, r.name)
            /\ KindOp(r.kind) \notin cln.denied)
           => (r.line = "does not exist" /\ r.line \in SuccessLines)

\* the first sweep deleted an endpoint, and the second sweep, now finished,
\* found a candidate absent
C6_Witness ==
  /\ cln.sweep = 2
  /\ cln.pc = "done"
  /\ \E k \in SweepCalls :
       /\ cln.calls[k].sweep = 1
       /\ cln.calls[k].op = "delete_endpoint"
       /\ cln.calls[k].answer = "ok"
  /\ \E k \in SweepLines :
       cln.report[k].sweep = 2 /\ cln.report[k].line = "does not exist"

\* the sweep sw has finished its iteration for the candidate endpoint e
Swept(sw, e) ==
  \E k \in SweepLines :
    /\ cln.report[k].sweep = sw
    /\ cln.report[k].kind = "endpoint"
    /\ cln.report[k].name = e

\* the control plane serves describe_endpoint and delete_endpoint
EndpointOpsServed ==
  cln.denied \cap {"describe_endpoint", "delete_endpoint"} = {}

\* C7 (SpecCleanup): a candidate endpoint that is Failed when the first sweep
\* starts is deleted by that sweep's iteration for it (the control plane
\* serving the two calls), describe_endpoint answers "does not exist" for it
\* from then on, and the second sweep makes no delete call for it and deletes
\* nothing at all.
C7_FailedEndpointSwept ==
  /\ \A e \in DOMAIN cln.failed_endpoints :
       (cln.at_start.endpoints[e] = "Failed" /\ EndpointOpsServed
          /\ Swept(1, e)) =>
         /\ \E k \in SweepCalls :
              /\ cln.calls[k].sweep = 1
              /\ cln.calls[k].op = "delete_endpoint"
              /\ cln.calls[k].name = e
              /\ cln.calls[k].answer = "ok"
         /\ CpDescribeEndpoint(cln, e) = "does not exist"
         /\ \A k \in SweepCalls :
              cln.calls[k].sweep = 2 =>
                ~(cln.calls[k].op = "delete_endpoint" /\ cln.calls[k].name = e)
  /\ \A k \in SweepCalls :
       (cln.calls[k].sweep = 2 /\ cln.calls[k].op # "describe_endpoint")
         => cln.calls[k].answer # "ok"

\* both sweeps are done over an endpoint that was Failed at the start
C7_Witness ==
  /\ cln.sweep = 2
  /\ cln.pc = "done"
  /\ EndpointOpsServed
  /\ \E e \in DOMAIN cln.failed_endpoints :
       cln.at_start.endpoints[e] = "Failed" /\ Swept(2, e)

\* delete_endpoint is called on a candidate exactly when the status just
\* observed for it by describe_endpoint is in the set del, and only then
DeleteIffObserved(del) ==
  \A k \in SweepCalls :
    LET c == cln.calls[k] IN
    /\ (c.op = "describe_endpoint" /\ c.answer \in EndpointStatuses) =>
         /\ (c.answer \in del) <=>
              /\ k + 1 <= Len(cln.calls)
              /\ cln.calls[k + 1].op = "delete_endpoint"
              /\ cln.calls[k + 1].name = c.name
              /\ cln.calls[k + 1].sweep = c.sweep
         /\ (c.answer \notin del) => cln.endpoints[c.name] = c.answer
    /\ c.op = "delete_endpoint" =>
         /\ k > 1
         /\ cln.calls[k - 1].op = "describe_endpoint"
         /\ cln.calls[k - 1].name = c.name
         /\ cln.calls[k - 1].sweep = c.sweep
         /\ cln.calls[k - 1].answer \in del

\* C8 as stated (SpecCleanup): the sweep calls delete_endpoint on a candidate
\* if and only if the status it just observed is Failed; an endpoint observed
\* in any other status is left in place.
C8_DeleteIffFailed == DeleteIffObserved({"Failed"})

\* C8 amended (SpecCleanup): the sweep calls delete_endpoint on a candidate if
\* and only if the status it just observed is Failed or OutOfService; an
\* endpoint observed in any other status is left in place.
C8_DeleteIffFailedOrOutOfService == DeleteIffObserved({"Failed", "OutOfService"})

\* an endpoint observed OutOfService got a delete_endpoint call
C8_Witness ==
  \E k \in SweepCalls :
    /\ cln.calls[k].op = "delete_endpoint"
    /\ cln.calls[k - 1].answer = "OutOfService"

\* the number of calls of op on name made by sweep sw
CallCount(sw, op, name) ==
  Cardinality({k \in SweepCalls :
                 /\ cln.calls[k].sweep = sw
                 /\ cln.calls[k].op = op
                 /\ cln.calls[k].name = name})

\* the lines sweep sw printed for a candidate
LinesFor(sw, kind, name) ==
  {cln.report[k].line : k \in {j \in SweepLines :
                                 /\ cln.report[j].sweep = sw
                                 /\ cln.report[j].kind = kind
                                 /\ cln.report[j].name = name}}

Candidates ==
  {<<"endpoint", cln.failed_endpoints[n]>> : n \in DOMAIN cln.failed_endpoints}
  \cup {<<"config", cln.failed_configs[n]>> : n \in DOMAIN cln.failed_configs}
  \cup {<<"model", cln.failed_models[n]>> : n \in DOMAIN cln.failed_models}

\* the number of iterations sweep sw has run for a candidate
Attempts(sw, cand) ==
  Cardinality({k \in SweepLines :
                 /\ cln.report[k].sweep = sw
                 /\ cln.report[k].kind = cand[1]
                 /\ cln.report[k].name = cand[2]})

SweepResult(s, den) ==
  [endpoints |->
     [n \in DOMAIN s.endpoints |->
        IF /\ s.endpoints[n] \in {"Failed", "OutOfService"}
           /\ den \cap {"describe_endpoint", "delete_endpoint"} = {}
        THEN "absent" ELSE s.endpoints[n]],
   configs |-> IF "delete_endpoint_config" \in den THEN s.configs ELSE {},
   models |-> IF "delete_model" \in den THEN s.models ELSE {}]

ParAllDone ==
  /\ par.proc # <<>>
  /\ \A p \in DOMAIN par.proc : par.proc[p].pc = "done"

\* C11 (SpecSweeps): the control-plane state a cleanup sweep ends in does not
\* depend on the order in which the candidates are processed, and runs whose
\* calls interleave end in the state a single sequential run ends in.
C11_FinalStateOrderIndependent ==
  ParAllDone => Snapshot(par) = SweepResult(par.at_start, par.denied)

\* two runs have ended, one of them took its endpoints in another order than
\* the source, a delete_endpoint of one fell between the describe_endpoint and
\* the delete_endpoint of the other, and resources were deleted
C11_Witness ==
  /\ ParAllDone
  /\ Len(par.proc) = 2
  /\ par.proc[1].failed_endpoints # par.proc[2].failed_endpoints
  /\ par.raced
  /\ Snapshot(par) # par.at_start
  /\ par.configs = {} /\ par.at_start.configs # {}

\* C12 as stated (SpecInvocationTest): whatever the samples and whichever of
\* them fail, the invocation test returns exactly one entry, a result or an
\* error, per input, in input order.
C12_OneEntryPerInput ==
  tst.pc = "done" =>
    /\ tst.result = "predictions"
    /\ Len(tst.predictions) = tst.n
    /\ \A k \in 1..Len(tst.predictions) : tst.predictions[k].sample = k

\* C13 (SpecInvocationTest): a failure on a sample never stops the loop; every
\* sample of the input is invoked exactly once, in order, whatever the
\* outcome of the samples before it.
C13_EverySampleInvokedOnce ==
  /\ \A k \in 1..Len(tst.invoked) : tst.invoked[k] = k
  /\ tst.pc = "loop" => Len(tst.invoked) = tst.i - 1
  /\ tst.pc = "done" => Len(tst.invoked) = tst.n

\* a test has ended whose first sample failed at invoke, whose second had an
\* unparsable body, and which went on to a sample that succeeded
C13_Witness ==
  /\ tst.pc = "done"
  /\ tst.n >= 3
  /\ Len(tst.invoked) = tst.n
  /\ tst.printed[1].line = "error"
  /\ tst.printed[2].line = "error"
  /\ tst.printed[tst.n].line = "prediction"

\* the status sequence of a job that completes at describe number Len(s)
RunsThenCompletes(s) ==
  /\ Len(s) >= 1
  /\ s[Len(s)] = "Completed"
  /\ \A j \in 1..(Len(s) - 1) : s[j] = "InProgress"

\* C14 as stated (SpecTraining): when the training job's statuses are k-1
\* times InProgress and then Completed, the training stage polls exactly k
\* times and what it returns carries the status Completed it observed.
C14_PollsUntilCompleted ==
  (/\ trn.pc = "done"
   /\ trn.function = "start_training_job"
   /\ ~trn.raised
   /\ RunsThenCompletes(trn.job_statuses))
  => /\ trn.polls = Len(trn.job_statuses)
     /\ trn.status = "Completed"

\* C15 as stated (SpecTraining): when the control plane reports the training
\* job Failed, the training stage surfaces the failure reason and aborts; it
\* does not return the job as a usable result.
C15_FailedJobNotReturned ==
  (/\ trn.pc = "done"
   /\ trn.function = "start_training_job"
   /\ trn.status = "Failed")
  => /\ \E k \in 1..Len(trn.printed) : trn.printed[k] = "Training job failed"
     /\ trn.result # "job_name"

\* the calls of the run so far, as a set
PipeCalled == {pipe.calls[k] : k \in 1..Len(pipe.calls)}

\* C16 (SpecPipeline): when listing the training-data prefix returns zero
\* keys, the pipeline run aborts at once with a failure result: the listing is
\* its only call, it is not repeated, and no training-job, endpoint or
\* invocation call follows.
C16_NoDataAborts ==
  pipe.key_count = 0 =>
    /\ pipe.pc = "done"
    /\ pipe.result = "False"
    /\ pipe.calls = <<"list_objects_v2">>
    /\ ~pipe.summary

\* a run has ended on a listing that reported zero keys while a Completed
\* training job existed
C16_Witness ==
  /\ pipe.pc = "done"
  /\ pipe.key_count = 0
  /\ pipe.result = "False"
  /\ \E j \in DOMAIN pipe.jobs : pipe.jobs[j] = "Completed"

StageOrder ==
  <<"list_objects_v2", "list_training_jobs", "list_endpoints", "invoke_endpoint">>

\* C17 (SpecPipeline): in every pipeline run the stages happen in the order
\* data check, training-job resolution, endpoint resolution, invocation test,
\* report; the endpoint is invoked only after a Completed training job was
\* found and an endpoint was observed InService in the same run, and the
\* report is produced only after a successful invocation.
C17_StageOrder ==
  /\ Len(pipe.calls) <= Len(StageOrder)
  /\ \A k \in 1..Len(pipe.calls) : pipe.calls[k] = StageOrder[k]
  /\ (pipe.pc = "invoke" \/ "invoke_endpoint" \in PipeCalled) =>
       /\ pipe.key_count > 0
       /\ pipe.latest_successful_job \in DOMAIN pipe.jobs
       /\ pipe.jobs[pipe.latest_successful_job] = "Completed"
       /\ pipe.endpoint_status = "InService"
  /\ pipe.summary =>
       /\ pipe.calls = StageOrder
       /\ pipe.prediction
       /\ pipe.result = "True"
  /\ pipe.result = "True" => pipe.summary

\* a run has gone through all four calls and printed its summary
C17_Witness ==
  /\ pipe.pc = "done"
  /\ pipe.summary
  /\ pipe.calls = StageOrder
  /\ pipe.result = "True"

\* the listed jobs that are Completed
ListedCompleted ==
  {pipe.training_jobs[k] : k \in
     {j \in 1..Len(pipe.training_jobs) :
        pipe.jobs[pipe.training_jobs[j]] = "Completed"}}

\* C18 (SpecPipeline): when at least one of the listed recent training jobs
\* is Completed, the run reuses the most recently created Completed one,
\* derives the artifact location from its name, and creates no training job.
C18_ReusesLatestCompleted ==
  (pipe.listed /\ ListedCompleted # {}) =>
    /\ pipe.latest_successful_job \in ListedCompleted
    /\ \A j \in ListedCompleted : j <= pipe.latest_successful_job
    /\ pipe.model_artifacts_path = ModelArtifactsPath(pipe.latest_successful_job)
    /\ "create_training_job" \notin PipeCalled
    /\ pipe.pc = "list_endpoints" \/ "list_endpoints" \in PipeCalled

\* the run has picked a Completed job that is neither the newest job listed
\* nor the only Completed one: a newer job is not Completed, an older is
C18_Witness ==
  /\ pipe.listed
  /\ pipe.latest_successful_job # 0
  /\ pipe.latest_successful_job < Len(pipe.jobs)
  /\ \E j \in ListedCompleted : j < pipe.latest_successful_job
  /\ Len(pipe.jobs) > MaxResults

DeleteOps == {"delete_endpoint", "delete_endpoint_config", "delete_model"}

\* the creation calls of the run that succeeded
DepCreated ==
  {dep.calls[k].op : k \in {j \in 1..Len(dep.calls) :
      dep.calls[j].op \in CreateOps /\ dep.calls[j].ok}}

\* C19 (SpecDeployModel): on every path of the deployment stage, endpoint
\* status Failed, wait timeout and creation errors included, the stage issues
\* no delete call: what it created is left in place in the control plane.
C19_NoDeleteOnAnyPath ==
  /\ \A k \in 1..Len(dep.calls) : dep.calls[k].op \notin DeleteOps
  /\ \A k \in 1..Len(dep.calls) :
       dep.calls[k].op \in CreateOps \cup {"describe_endpoint"}

\* a deployment has ended on an endpoint the waiter saw Failed, after its
\* three creation calls succeeded
C19_Witness ==
  /\ dep.pc = "done"
  /\ dep.wait = "failure"
  /\ DepCreated = CreateOps

\* C20 (SpecMonitor): while polling an endpoint, an observed status other than
\* InService and Failed is not yet usable: the poll reports neither success
\* nor failure for it and goes on to the next poll, until a terminal status or
\* the ceiling.
C20_NonTerminalKeepsPolling ==
  (mon.status \in EndpointStatuses \ Terminal /\ mon.branch # "error") =>
    /\ mon.pc = "sleep" =>
         /\ mon.result = "none"
         /\ mon.elapsed_time <= mon.max_wait_seconds
         /\ ENABLED MonSleep
    /\ mon.pc = "poll" =>
         /\ mon.result = "none"
         /\ ENABLED MonFetchStatus("Creating", 0, "ok")
    /\ mon.pc = "done" =>
         /\ mon.branch = "timeout"
         /\ mon.elapsed_time > mon.max_wait_seconds

\* the monitor is about to poll again after it saw the endpoint Updating or
\* Deleting, and it has slept at least twice
C20_Witness ==
  /\ mon.pc = "poll"
  /\ mon.status \in {"Updating", "Deleting"}
  /\ mon.sleeps >= 2
  /\ mon.result = "none"

\* C21 as stated (SpecMonitor): a transient 'not found yet' error from a
\* status fetch is retried; the poll goes on after such an error and ends with
\* a fatal error only after several consecutive transient errors.
C21_TransientErrorRetried ==
  (mon.error = "not_found" /\ mon.errors = 1) => mon.pc # "done"

\* C22 (SpecPollLoops): a status-fetch error other than a transient 'not
\* found' ends the poll at once: no further fetch and no further sleep follow
\* it, and the caller gets an error outcome (the monitor's False after the
\* error is printed, exit status 1 from the workflow wait).
C22_OtherErrorEndsPoll ==
  /\ mon.error = "other" =>
       /\ mon.pc = "done"
       /\ mon.branch = "error"
       /\ mon.result = "False"
       /\ mon.errors = 1
       /\ ~ENABLED MonNext
  /\ inf.error = "other" =>
       /\ inf.pc = "exit"
       /\ inf.exit_code = 1
       /\ ~ENABLED InfNext

\* the monitor has ended on an error of its third fetch
C22_Witness ==
  /\ mon.pc = "done"
  /\ mon.error = "other"
  /\ mon.fetches = 3
  /\ mon.sleeps = 2

\* C23 as stated (SpecPipeline): a command-line entry point exits with code 0
\* exactly when its operation succeeded, and with a non-zero code whenever it
\* ended in an unrecovered fatal error (missing training data, no completed
\* training job, no active endpoint, an exception).
C23_ExitCodeTellsSuccess ==
  pipe.pc = "done" =>
    (PipelineExitCode(pipe.result) = 0 <=> pipe.result = "True")

\* C24 as stated (SpecNaming): for every prefix and any two generation times
\* that differ by at least one second, the names generated as
\* {prefix}-{YYYYMMDD-HHMMSS} are distinct.
C24_DistinctTimesDistinctNames ==
  \A i, j \in 1..Len(nam.created) :
    (/\ nam.created[i].name.timestamp # <<>>
     /\ nam.created[j].name.timestamp # <<>>
     /\ nam.created[i].name.prefix = nam.created[j].name.prefix
     /\ nam.created[j].at - nam.created[i].at >= 1)
    => nam.created[i].name # nam.created[j].name

\* C25 as stated (SpecNaming): across any sequence of deployment and training
\* runs no resource name of a kind is used in a creation call by two different
\* runs, also when the caller supplies model or endpoint names and when two
\* runs start within the same second.
C25_NameNeverReused ==
  \A i, j \in 1..Len(nam.created) :
    (/\ nam.created[i].run # nam.created[j].run
     /\ nam.created[i].kind = nam.created[j].kind)
    => nam.created[i].name # nam.created[j].name

\* the number of times the run has issued the call op
DepIssued(op) ==
  Cardinality({k \in 1..Len(dep.calls) : dep.calls[k].op = op})

\* C26 (SpecDeployModel): within one deployment run each of the three creation
\* calls, create model, create endpoint configuration and create endpoint, is
\* issued at most once.
C26_EachCreateAtMostOnce ==
  \A op \in CreateOps : DepIssued(op) <= 1

\* a deployment has ended with an endpoint in service, after issuing each of
\* the three creation calls
C26_Witness ==
  /\ dep.pc = "done"
  /\ dep.wait = "success"
  /\ \A op \in CreateOps : DepIssued(op) = 1

\* the statuses of a workflow run on which the workflow loop ends
WorkflowTerminal == {"COMPLETED", "FAILED"}

\* C27 (SpecPollLoops): once a fetch has returned a terminal status
\* (InService or Failed for the endpoint monitor, COMPLETED or FAILED for the
\* workflow loop), the poll makes no further fetch and no further sleep before
\* it returns.
C27_TerminalStatusEndsPoll ==
  /\ mon.termSeen =>
       /\ mon.pc = "done"
       /\ mon.status \in Terminal
       /\ ~ENABLED MonNext
  /\ inf.status \in WorkflowTerminal =>
       /\ inf.pc \notin {"poll_workflow", "sleep_workflow"}
       /\ ~ENABLED (\E r \in WorkflowAnswers : InfPollWorkflow(r))
       /\ ~ENABLED InfSleepWorkflow

\* the workflow loop has fetched FAILED after at least one sleep and has left
\* the loop
C27_Witness ==
  /\ inf.status = "FAILED"
  /\ inf.wf_sleeps >= 1
  /\ inf.pc = "exit"

\* C28 (SpecPollLoops): in the endpoint monitor and in the workflow loop two
\* consecutive fetches are separated by exactly one sleep, and every sleep
\* lasts the same fixed 30 seconds: the interval never grows or shrinks.
C28_OneFixedSleepBetweenFetches ==
  /\ mon.pc = "poll" => mon.fetches = mon.sleeps
  /\ mon.pc \in {"sleep", "done"} => mon.fetches = mon.sleeps + 1
  /\ mon.sleeps > 0 => mon.last_sleep = 30
  /\ inf.pc = "poll_workflow" => inf.wf_polls = inf.wf_sleeps
  /\ (inf.pc = "sleep_workflow" /\ inf.wf_polls < MaxPolls) =>
       inf.wf_polls = inf.wf_sleeps + 1
  /\ inf.wf_sleeps > 0 => inf.last_sleep = 30
  /\ Interval = 30 /\ WorkflowInterval = 30

\* the monitor has returned after three fetches with two sleeps between them
C28_Witness ==
  /\ mon.pc = "done"
  /\ mon.fetches = 3
  /\ mon.sleeps = 2

\* the validation lines that flag a prediction
Flags == {"large_change", "unrealistic"}

\* C29 (SpecInvocationTest): a prediction is flagged as implausible exactly
\* when it lies outside the range of the validation or its difference from the
\* first feature of the input exceeds the bound; the flag is a warning only:
\* the samples after it are still invoked and the test returns as it does
\* without a flag.
C29_FlagIffOutOfRangeOrLargeChange ==
  /\ \A k \in 1..Len(tst.validation) :
       (tst.variant \in {"github", "new"} /\ tst.printed[k].line = "prediction")
         <=> tst.validation[k] # "none"
  /\ (Len(tst.validation) > 0 /\ tst.validation[Len(tst.validation)] # "none") =>
       (tst.validation[Len(tst.validation)] \in Flags
          <=> \/ tst.prediction < Validation(tst.variant).lo
              \/ tst.prediction > Validation(tst.variant).hi
              \/ Abs(tst.prediction - tst.current)
                   > Validation(tst.variant).max_change)
  /\ tst.pc = "loop" => Len(tst.invoked) = tst.i - 1
  /\ tst.pc = "done" =>
       (Len(tst.invoked) = tst.n /\ tst.result = TestReturn(tst.variant))

\* a test has run to its end over all its samples although the prediction for
\* its first sample was flagged for its change and the second for its range
C29_Witness ==
  /\ tst.pc = "done"
  /\ tst.variant = "github"
  /\ tst.validation[1] = "large_change"
  /\ tst.validation[2] = "unrealistic"
  /\ tst.validation[tst.n] = "reasonable"
  /\ tst.result = "None"

\* C30 (SpecMonitor): monitor_endpoint_deployment makes at least one status
\* fetch, also with a ceiling of 0 minutes; a fetch that returns InService or
\* Failed ends the monitor with that result even when the elapsed time is
\* already above the ceiling; the timeout result comes only right after a
\* fetch whose status is not terminal and whose elapsed time is strictly
\* greater than the ceiling.
C30_FetchBeforeCeiling ==
  /\ mon.pc \in {"sleep", "done"} => mon.fetches >= 1
  /\ (mon.pc = "poll" /\ mon.fetches = 0) =>
       /\ ~ENABLED MonSleep
       /\ ENABLED (\E s \in EndpointStatuses, d \in Latencies :
                     MonFetchStatus(s, d, "ok"))
  /\ mon.status \in Terminal =>
       /\ mon.pc = "done"
       /\ mon.branch = mon.status
       /\ mon.result = MonitorReturn(mon.status)
  /\ mon.branch = "timeout" =>
       /\ mon.pc = "done"
       /\ mon.error = "none"
       /\ mon.status \in EndpointStatuses \ Terminal
       /\ mon.elapsed_time > mon.max_wait_seconds
  /\ mon.pc = "sleep" => mon.elapsed_time <= mon.max_wait_seconds

\* a monitor with a ceiling of 0 minutes has returned Failed from its only
\* fetch, which ended after the ceiling
C30_Witness ==
  /\ mon.max_wait_seconds = 0
  /\ mon.pc = "done"
  /\ mon.fetches = 1
  /\ mon.branch = "Failed"
  /\ mon.elapsed_time > mon.max_wait_seconds

\* every status fetch of the monitor so far took no time: the clock has
\* advanced by the sleeps only
MonFetchesTookNoTime ==
  mon.clock - mon.start_time = Interval * mon.sleeps

\* C31 (SpecMonitor): when the status fetches take no time, the monitor with a
\* ceiling of C seconds makes at most floor(C/30) + 2 fetches and sleeps at
\* most floor(C/30) + 1 times, so its total wait is above the ceiling by at
\* most one interval.
C31_FetchAndSleepBound ==
  (mon.pc # "idle" /\ MonFetchesTookNoTime) =>
    /\ mon.fetches <= (mon.max_wait_seconds \div 30) + 2
    /\ mon.sleeps <= (mon.max_wait_seconds \div 30) + 1
    /\ mon.clock - mon.start_time <= mon.max_wait_seconds + Interval

\* a monitor with a ceiling of 60 seconds whose fetches took no time has timed
\* out after 4 fetches and 3 sleeps, 90 seconds after its start
C31_Witness ==
  /\ mon.pc = "done"
  /\ mon.branch = "timeout"
  /\ MonFetchesTookNoTime
  /\ mon.max_wait_seconds = 60
  /\ mon.fetches = 4
  /\ mon.sleeps = 3
  /\ mon.clock - mon.start_time = 90

\* the call at position k builds on the resource that the creation call op of
\* this run, made before it and returned without error, created
DepBuildsOn(k, op) ==
  \E j \in 1..(k - 1) :
    /\ dep.calls[j].op = op
    /\ dep.calls[j].ok
    /\ dep.calls[j].name = dep.calls[k].refers

\* C32 (SpecDeployModel): in every deployment run the endpoint configuration
\* is created with the model name passed to create_model in that run and the
\* endpoint with the configuration name passed to create_endpoint_config in
\* that run; no creation call names a resource the run has not created before.
C32_CreatesReferenceOwnResources ==
  \A k \in 1..Len(dep.calls) :
    /\ dep.calls[k].op = "create_model" => dep.calls[k].refers = "none"
    /\ dep.calls[k].op = "create_endpoint_config" =>
         DepBuildsOn(k, "create_model")
    /\ dep.calls[k].op = "create_endpoint" =>
         DepBuildsOn(k, "create_endpoint_config")

\* a run has made its three creation calls and is about to wait
C32_Witness ==
  /\ dep.pc = "wait"
  /\ dep.attempts = 0
  /\ Len(dep.calls) = 3
  /\ dep.calls[3].op = "create_endpoint"
  /\ dep.calls[3].ok
  /\ dep.calls[3].refers = dep.calls[2].name
  /\ dep.calls[2].refers = dep.calls[1].name

\* C33 as stated (SpecNaming): within one deployment run the generated model,
\* endpoint configuration and endpoint names carry the same timestamp, so
\* that the three resources of a run are told by their suffix.
C33_OneTimestampPerRun ==
  \A i, j \in 1..Len(nam.created) :
    (/\ nam.created[i].run = nam.created[j].run
     /\ nam.created[i].name.timestamp # <<>>
     /\ nam.created[j].name.timestamp # <<>>)
    => nam.created[i].name.timestamp = nam.created[j].name.timestamp

\* main is past run_glue_workflow: the function returned
WorkflowReturned == inf.pc \in {"wait_endpoint", "test", "done"}

\* C34 (SpecInfra): run_glue_workflow returns normally exactly when a poll
\* observed the status COMPLETED; an observed FAILED and any error of starting
\* or describing the run end the process with a non-zero exit code; a run
\* whose properties carry no Status counts as RUNNING and is polled again.
C34_WorkflowReturnsIffCompleted ==
  /\ WorkflowReturned <=> inf.status = "COMPLETED"
  /\ WorkflowReturned => inf.props = "COMPLETED"
  /\ inf.status = "FAILED" => (inf.pc = "exit" /\ inf.exit_code = 1)
  /\ inf.props = "error" => (inf.pc = "exit" /\ inf.exit_code = 1)
  /\ (inf.pc \notin {"upload", "start_workflow"} /\ inf.uploaded /\ ~inf.run_id)
       => (inf.pc = "exit" /\ inf.exit_code = 1)
  /\ inf.pc = "exit" => inf.exit_code # 0
  /\ inf.props = "missing" =>
       /\ inf.status = "RUNNING"
       /\ inf.pc \in {"sleep_workflow", "poll_workflow"}

\* run_glue_workflow has returned on COMPLETED after at least one sleep, and
\* the endpoint wait has not polled yet
C34_Witness ==
  /\ inf.pc = "wait_endpoint"
  /\ inf.props = "COMPLETED"
  /\ inf.wf_sleeps >= 1
  /\ inf.ep_polls = 0

\* C35 (SpecInfra): in src/deploy.py the data is uploaded before the workflow
\* run is started, the endpoint wait starts only after the workflow run was
\* seen COMPLETED, and the endpoint is invoked only after a describe call
\* answered InService; an error of the describe call and every other status,
\* Failed included, make the wait poll again.
C35_InfraOrder ==
  /\ (inf.run_id \/ inf.pc = "start_workflow") => inf.uploaded
  /\ (inf.pc = "wait_endpoint" \/ inf.ep_polls > 0) =>
       (inf.run_id /\ inf.status = "COMPLETED")
  /\ (inf.pc = "test" \/ inf.invoked # "none") =>
       inf.endpoint_status = "InService"
  /\ inf.endpoint_status \in DescribeAnswers \ {"InService"} =>
       /\ inf.pc = "wait_endpoint"
       /\ inf.invoked = "none"
       /\ ENABLED (\E r \in DescribeAnswers : InfCheckEndpoint(r))

\* main has invoked the endpoint after an endpoint wait that polled more than
\* once
C35_Witness ==
  /\ inf.pc = "done"
  /\ inf.invoked = "ok"
  /\ inf.ep_polls >= 2
  /\ inf.endpoint_status = "InService"

\* C36 (SpecInvokeGuard): in the orchestrated run, the deployment monitor, the
\* endpoint test script and the GitHub test entry point, invoke_endpoint is
\* called for an endpoint only after a describe or list call of the same run
\* answered InService for it; for any other status, and when the check fails
\* with an error, no invocation is made.
C36_InvokeOnlyWhenInService ==
  /\ (pipe.pc = "invoke" \/ "invoke_endpoint" \in PipeCalled) =>
       (pipe.endpoint_status = "InService" /\ pipe.active_endpoint)
  /\ (pipe.pc = "done" /\ "list_endpoints" \in PipeCalled
        /\ pipe.endpoint_status # "InService") =>
       "invoke_endpoint" \notin PipeCalled
  /\ mon.invoke # "none" => (mon.status = "InService" /\ mon.error = "none")
  /\ (mon.status # "InService" \/ mon.error # "none") => mon.invoke = "none"
  /\ (tst.pc \in {"single", "loop"} \/ tst.single # "none"
        \/ Len(tst.invoked) > 0) => tst.checked = "InService"
  /\ tst.checked \in DescribeAnswers \ {"InService"} =>
       /\ tst.pc = "exit"
       /\ tst.single = "none"
       /\ tst.invoked = <<>>

\* the endpoint test script has found the endpoint InService, made its single
\* invocation and invoked every sample of the batch
C36_Witness ==
  /\ tst.variant = "batch"
  /\ tst.checked = "InService"
  /\ tst.single = "ok"
  /\ tst.pc = "done"
  /\ Len(tst.invoked) = MainSamples

\* the calls of run_full_ml_pipeline that read the control plane
ListCalls == {"list_objects_v2", "list_training_jobs", "list_endpoints"}

C38_TrueIffAllStagesPass ==
  pipe.pc = "done" =>
    /\ pipe.result \in {"True", "False"}
    /\ pipe.result = "True" <=>
         /\ pipe.key_count > 0
         /\ pipe.listed
         /\ ListedCompleted # {}
         /\ pipe.endpoint_status = "InService"
         /\ pipe.prediction

\* a run has returned False from the except clause after its invocation of an
\* endpoint InService raised
C38_Witness ==
  /\ pipe.pc = "done"
  /\ pipe.result = "False"
  /\ pipe.calls = StageOrder
  /\ pipe.endpoint_status = "InService"
  /\ ~pipe.prediction

\* C39 (SpecDeployModel): deploy_model of deploy_model_github.py returns the
\* endpoint name exactly when the wait ended without error and the status
\* described after it is InService; for a Failed endpoint, a wait that ran
\* out of attempts and an error of a creation call it returns None, the same
\* value in each case, and it never raises.
C39_EndpointNameIffInService ==
  (dep.pc = "done" /\ dep.variant = "github") =>
    /\ dep.result \in {"endpoint_name", "None"}
    /\ dep.result = "endpoint_name" <=>
         (dep.wait = "success" /\ dep.endpoint_status = "InService")
    /\ dep.wait \in {"failure", "max_attempts", "error"} => dep.result = "None"
    /\ (\E k \in 1..Len(dep.calls) :
          dep.calls[k].op \in CreateOps /\ ~dep.calls[k].ok) =>
         dep.result = "None"

\* the configurable deployment has returned None after its wait ran out of
\* attempts
C39_Witness ==
  /\ dep.pc = "done"
  /\ dep.variant = "github"
  /\ dep.wait = "max_attempts"
  /\ dep.attempts = MaxAttempts
  /\ dep.result = "None"

====
